---- MODULE Spec2Model ----
(***************************************************************************)
(* Model of the recipebook grocery-list engine:                            *)
(*   - utils/measurements (parseQuantityToNumber, getUnitInfo,             *)
(*     formatVolumeFromMl, formatWeightFromG)                              *)
(*   - app/recipes/page.tsx (normalizeAisle, normalizeIngredientName,      *)
(*     generateGroceryList)                                                *)
(*                                                                         *)
(* Text is a sequence of characters.  A character is a one-character       *)
(* string; the non-ASCII characters the code names are written as          *)
(* "{1/2}" (the vulgar fraction one half), "{ndash}" and "{approx}".       *)
(* Numbers are exact rationals [n, d] in lowest terms (d > 0); NaN is a    *)
(* value of its own (d = 0).                                               *)
(***************************************************************************)
EXTENDS Integers, Sequences, FiniteSets, TLC

VARIABLES
    qIn,        \* parseQuantityToNumber: the argument (a text, or NULL)
    qOut,       \* parseQuantityToNumber: <<>> before the call, <<returned number>> after
    uIn,        \* getUnitInfo: the argument (a text, or NULL)
    uOut,       \* getUnitInfo: <<>> before the call, <<returned UnitInfo>> after
    fIn,        \* formatVolumeFromMl / formatWeightFromG: the family, total and preferred units
    fOut,       \* formatVolumeFromMl / formatWeightFromG: <<>>, then <<{quantity, unit}>>
    processed,  \* generateGroceryList: the (recipe title, ingredient) pairs visited so far
    aggByAisle, \* generateGroceryList: aisle -> nameKey -> Agg, in the order of Object.entries
    combined,   \* generateGroceryList: aisle -> row key -> row, in the order of Object.entries
    pc,         \* generateGroceryList: "collect" (forEach), "done" (returned)
    recipes,    \* the ingredient lines of the selected recipes, when a run visits them in order
    runs,       \* the grocery lists the earlier calls of generateGroceryList returned
    nIn,        \* normalizeIngredientName: the argument (a text, or NULL)
    nOut,       \* normalizeIngredientName: <<>> before the call, <<returned text>> after
    up,         \* POST /transcribe: the upload, the place of the request, the response
    dbs,        \* the database: the rows stored, the sessions and their open transactions
    saves,      \* POST /: for every request its place in the handler and its response
    page,       \* RecipesPage: recipes, selectedRecipes, search and the requests under way
    stored      \* the recipes the server holds, as RecipesPage fetches and deletes them

vars == <<qIn, qOut, uIn, uOut, fIn, fOut, processed, aggByAisle, combined, pc, recipes, runs,
          nIn, nOut, up, dbs, saves, page, stored>>
parseVars == <<qIn, qOut>>
unitVars == <<uIn, uOut>>
formatVars == <<fIn, fOut>>
aggVars == <<processed, aggByAisle, combined, pc>>
runVars == <<recipes, runs>>
nameVars == <<nIn, nOut>>
\* the variables of the parts further down, which the parts above them leave alone
uploadVars == <<up>>
saveVars == <<dbs, saves>>
pageVars == <<page, stored>>
afterNameVars == <<uploadVars, saveVars, pageVars>>
afterRunVars == <<nameVars, afterNameVars>>
afterAggVars == <<runVars, afterRunVars>>

\* null or undefined where the code expects a text: a value no text equals
NULL == <<"{null}">>
\* NaN, and the null of parseFractionToken: values no rational [n, d] with d > 0 equals
NaN == [n |-> 0, d |-> 0]
NoFraction == [n |-> 1, d |-> 0]

-----------------------------------------------------------------------------
(* Exact rational arithmetic *)

RECURSIVE Gcd(_, _)
Gcd(a, b) == IF b = 0 THEN a ELSE Gcd(b, a % b)

Abs(x) == IF x < 0 THEN -x ELSE x

Rat(n, d) ==
    LET g == Gcd(Abs(n), Abs(d))
        s == IF d < 0 THEN -1 ELSE 1
    IN [n |-> (s * n) \div g, d |-> (s * d) \div g]

Zero == [n |-> 0, d |-> 1]
Int2Rat(i) == [n |-> i, d |-> 1]
RAdd(x, y) == Rat(x.n * y.d + y.n * x.d, x.d * y.d)
RSub(x, y) == Rat(x.n * y.d - y.n * x.d, x.d * y.d)
RMul(x, y) == Rat(x.n * y.n, x.d * y.d)
RDiv(x, y) == Rat(x.n * y.d, x.d * y.n)
RLeq(x, y) == x.n * y.d <= y.n * x.d
RLt(x, y) == x.n * y.d < y.n * x.d
IsRat(x) == x \in [n : Int, d : Nat \ {0}]

-----------------------------------------------------------------------------
(* Characters and the string methods the code uses *)

Digits == {"0", "1", "2", "3", "4", "5", "6", "7", "8", "9"}
UpperChars == <<"A", "B", "C", "D", "E", "F", "G", "H", "I", "J", "K", "L", "M",
                "N", "O", "P", "Q", "R", "S", "T", "U", "V", "W", "X", "Y", "Z">>
LowerChars == <<"a", "b", "c", "d", "e", "f", "g", "h", "i", "j", "k", "l", "m",
                "n", "o", "p", "q", "r", "s", "t", "u", "v", "w", "x", "y", "z">>
Range(f) == {f[i] : i \in DOMAIN f}
WhiteSpace == {" ", "\t"}

UpperSet == Range(UpperChars)
LowerSet == Range(LowerChars)
\* \w of a JavaScript regular expression
WordChars == Digits \cup UpperSet \cup LowerSet \cup {"_"}
LowerOf == [c \in UpperSet |-> LowerChars[CHOOSE i \in DOMAIN UpperChars : UpperChars[i] = c]]
UpperOf == [c \in LowerSet |-> UpperChars[CHOOSE i \in DOMAIN LowerChars : LowerChars[i] = c]]

IsDigit(c) == c \in Digits
IsSpace(c) == c \in WhiteSpace
IsWordChar(c) == c \in WordChars

DigitValue(c) ==
    CASE c = "0" -> 0 [] c = "1" -> 1 [] c = "2" -> 2 [] c = "3" -> 3 [] c = "4" -> 4
      [] c = "5" -> 5 [] c = "6" -> 6 [] c = "7" -> 7 [] c = "8" -> 8 [] c = "9" -> 9

LowerChar(c) == IF c \in UpperSet THEN LowerOf[c] ELSE c

UpperChar(c) == IF c \in LowerSet THEN UpperOf[c] ELSE c

\* a word with a capital first letter, and in capitals
Capitalised(w) == [i \in 1..Len(w) |-> IF i = 1 THEN UpperChar(w[i]) ELSE w[i]]
UpperCased(w) == [i \in 1..Len(w) |-> UpperChar(w[i])]

\* String.prototype.toLowerCase
ToLowerCase(s) == [i \in 1..Len(s) |-> LowerChar(s[i])]

RECURSIVE TrimStart(_)
TrimStart(s) == IF s # <<>> /\ IsSpace(Head(s)) THEN TrimStart(Tail(s)) ELSE s

RECURSIVE TrimEnd(_)
TrimEnd(s) ==
    IF s # <<>> /\ IsSpace(s[Len(s)]) THEN TrimEnd(SubSeq(s, 1, Len(s) - 1)) ELSE s

\* String.prototype.trim
Trim(s) == TrimEnd(TrimStart(s))

\* s.substring(i - 1): the text from position i on
From(s, i) == SubSeq(s, i, Len(s))

\* whether word w occurs in s at position i
HasAt(s, i, w) == i + Len(w) - 1 <= Len(s) /\ SubSeq(s, i, i + Len(w) - 1) = w

\* s.replace(/c/g, r) for a single character c
RECURSIVE ReplaceChar(_, _, _)
ReplaceChar(s, c, r) ==
    IF s = <<>> THEN <<>>
    ELSE (IF Head(s) = c THEN r ELSE <<Head(s)>>) \o ReplaceChar(Tail(s), c, r)

\* s.replace(/\s+/g, r)
RECURSIVE ReplaceSpaceRuns(_, _)
ReplaceSpaceRuns(s, r) ==
    IF s = <<>> THEN <<>>
    ELSE IF IsSpace(Head(s)) THEN r \o ReplaceSpaceRuns(TrimStart(s), r)
    ELSE <<Head(s)>> \o ReplaceSpaceRuns(Tail(s), r)

\* Number(m) for a text of digits
RECURSIVE DigitsToNat(_)
DigitsToNat(s) ==
    IF s = <<>> THEN 0 ELSE 10 * DigitsToNat(SubSeq(s, 1, Len(s) - 1)) + DigitValue(s[Len(s)])

RECURSIVE Pow10(_)
Pow10(k) == IF k = 0 THEN 1 ELSE 10 * Pow10(k - 1)

\* index of the last character of the longest run of digits of s that starts at i
\* (i - 1 when s has no digit at i)
RECURSIVE DigitsEnd(_, _)
DigitsEnd(s, i) == IF i <= Len(s) /\ IsDigit(s[i]) THEN DigitsEnd(s, i + 1) ELSE i - 1

\* first index from i on that holds no white space
RECURSIVE SkipSpaces(_, _)
SkipSpaces(s, i) == IF i <= Len(s) /\ IsSpace(s[i]) THEN SkipSpaces(s, i + 1) ELSE i

-----------------------------------------------------------------------------
(* measurements: the quantity parser *)

UNICODE_FRACTIONS == <<
    [u |-> "{1/4}", ascii |-> <<"1", "/", "4">>],
    [u |-> "{1/2}", ascii |-> <<"1", "/", "2">>],
    [u |-> "{3/4}", ascii |-> <<"3", "/", "4">>],
    [u |-> "{1/7}", ascii |-> <<"1", "/", "7">>],
    [u |-> "{1/9}", ascii |-> <<"1", "/", "9">>],
    [u |-> "{1/10}", ascii |-> <<"1", "/", "1", "0">>],
    [u |-> "{1/3}", ascii |-> <<"1", "/", "3">>],
    [u |-> "{2/3}", ascii |-> <<"2", "/", "3">>],
    [u |-> "{1/5}", ascii |-> <<"1", "/", "5">>],
    [u |-> "{2/5}", ascii |-> <<"2", "/", "5">>],
    [u |-> "{3/5}", ascii |-> <<"3", "/", "5">>],
    [u |-> "{4/5}", ascii |-> <<"4", "/", "5">>],
    [u |-> "{1/6}", ascii |-> <<"1", "/", "6">>],
    [u |-> "{5/6}", ascii |-> <<"5", "/", "6">>],
    [u |-> "{1/8}", ascii |-> <<"1", "/", "8">>],
    [u |-> "{3/8}", ascii |-> <<"3", "/", "8">>],
    [u |-> "{5/8}", ascii |-> <<"5", "/", "8">>],
    [u |-> "{7/8}", ascii |-> <<"7", "/", "8">> ] >>

\* parseFractionToken returning den / num
parseFractionTokenSwapped(token) ==
    LET a == DigitsEnd(token, 1)
        j == SkipSpaces(token, a + 1)
        k == SkipSpaces(token, j + 1)
        b == DigitsEnd(token, k)
    IN IF a >= 1 /\ j <= Len(token) /\ token[j] = "/" /\ b >= k /\ b = Len(token)
       THEN LET num == DigitsToNat(SubSeq(token, 1, a))
                den == DigitsToNat(SubSeq(token, k, b))
            IN IF den = 0 \/ num = 0 THEN NoFraction ELSE Rat(den, num)
       ELSE NoFraction

\* /^(\d+)\s*\/\s*(\d+)$/ on a token; null when it does not match or den is 0
parseFractionToken(token) ==
    LET a == DigitsEnd(token, 1)
        j == SkipSpaces(token, a + 1)
        k == SkipSpaces(token, j + 1)
        b == DigitsEnd(token, k)
    IN IF a >= 1 /\ j <= Len(token) /\ token[j] = "/" /\ b >= k /\ b = Len(token)
       THEN LET num == DigitsToNat(SubSeq(token, 1, a))
                den == DigitsToNat(SubSeq(token, k, b))
            IN IF den = 0 THEN NoFraction ELSE Rat(num, den)
       ELSE NoFraction

\* Number.parseFloat on a token of digits, '.' and '/': the value of the longest
\* prefix that is a decimal literal, NaN when there is none
parseFloat(t) ==
    LET a == DigitsEnd(t, 1)
        hasDot == a + 1 <= Len(t) /\ t[a + 1] = "."
        b == IF hasDot THEN DigitsEnd(t, a + 2) ELSE a
        intPart == DigitsToNat(SubSeq(t, 1, a))
        frac == SubSeq(t, a + 2, b)
    IN IF a = 0 /\ ~(hasDot /\ b >= a + 2) THEN NaN
       ELSE IF hasDot /\ b >= a + 2
            THEN RAdd(Int2Rat(intPart), Rat(DigitsToNat(frac), Pow10(Len(frac))))
            ELSE Int2Rat(intPart)

\* ReplaceAttached with the replacement `$1${ascii}`: no space put in
RECURSIVE ReplaceAttachedNoSpace(_, _, _)
ReplaceAttachedNoSpace(s, u, ascii) ==
    IF s = <<>> THEN <<>>
    ELSE IF Len(s) >= 2 /\ IsDigit(s[1]) /\ s[2] = u
         THEN <<s[1]>> \o ascii \o ReplaceAttachedNoSpace(From(s, 3), u, ascii)
         ELSE <<Head(s)>> \o ReplaceAttachedNoSpace(Tail(s), u, ascii)

\* s.replace(new RegExp(`(\\d)${u}`, 'g'), `$1 ${ascii}`)
RECURSIVE ReplaceAttached(_, _, _)
ReplaceAttached(s, u, ascii) ==
    IF s = <<>> THEN <<>>
    ELSE IF Len(s) >= 2 /\ IsDigit(s[1]) /\ s[2] = u
         THEN <<s[1], " ">> \o ascii \o ReplaceAttached(From(s, 3), u, ascii)
         ELSE <<Head(s)>> \o ReplaceAttached(Tail(s), u, ascii)

\* the loop over Object.entries(UNICODE_FRACTIONS), from entry k on
RECURSIVE NormalizeFractionsFrom(_, _)
NormalizeFractionsFrom(s, k) ==
    IF k > Len(UNICODE_FRACTIONS) THEN s
    ELSE LET e == UNICODE_FRACTIONS[k]
         IN IF e.u \notin Range(s) THEN NormalizeFractionsFrom(s, k + 1)  \* nothing to replace
            ELSE NormalizeFractionsFrom(
                     ReplaceChar(ReplaceAttached(s, e.u, e.ascii), e.u, e.ascii), k + 1)

NormalizeFractions(s) == NormalizeFractionsFrom(s, 1)

\* the alternatives of /\b(about|approx\.?|approximately|around|roughly)\b/ in the
\* order the regular expression tries them; approx\.? is tried with the period first
QualifierAlternatives == <<
    <<"a", "b", "o", "u", "t">>,
    <<"a", "p", "p", "r", "o", "x", ".">>,
    <<"a", "p", "p", "r", "o", "x">>,
    <<"a", "p", "p", "r", "o", "x", "i", "m", "a", "t", "e", "l", "y">>,
    <<"a", "r", "o", "u", "n", "d">>,
    <<"r", "o", "u", "g", "h", "l", "y">> >>

\* \b between positions i - 1 and i of s
WordBoundary(s, i) ==
    LET before == i - 1 >= 1 /\ i - 1 <= Len(s) /\ IsWordChar(s[i - 1])
        after == i >= 1 /\ i <= Len(s) /\ IsWordChar(s[i])
    IN before # after

\* length of the match of the qualifier expression at the head of From(s, i), 0 for none
QualifierMatch(s, i) ==
    LET ok(k) == /\ HasAt(s, i, QualifierAlternatives[k])
                 /\ WordBoundary(s, i + Len(QualifierAlternatives[k]))
        hits == {k \in DOMAIN QualifierAlternatives : ok(k)}
    IN IF ~(s[i] \in {"a", "r"} /\ WordBoundary(s, i)) \/ hits = {} THEN 0
       ELSE Len(QualifierAlternatives[CHOOSE k \in hits : \A h \in hits : k <= h])

\* .replace(/\b(about|approx\.?|approximately|around|roughly)\b/g, ' ')
RECURSIVE RemoveQualifierWords(_, _)
RemoveQualifierWords(s, i) ==
    IF i > Len(s) THEN <<>>
    ELSE LET m == QualifierMatch(s, i)
         IN IF m > 0 THEN <<" ">> \o RemoveQualifierWords(s, i + m)
            ELSE <<s[i]>> \o RemoveQualifierWords(s, i + 1)

\* .replace(/[~≈]/g, ' ')
RemoveQualifierSymbols(s) == ReplaceChar(ReplaceChar(s, "~", <<" ">>), "{approx}", <<" ">>)

RemoveQualifiers(s) == RemoveQualifierWords(RemoveQualifierSymbols(s), 1)

\* \d+(?:\.\d+)? at position i: index of its last character, 0 when it does not match
NumberEnd(s, i) ==
    LET a == DigitsEnd(s, i)
    IN IF a < i THEN 0
       ELSE IF a + 1 <= Len(s) /\ s[a + 1] = "." /\ DigitsEnd(s, a + 2) >= a + 2
            THEN DigitsEnd(s, a + 2)
            ELSE a

\* /(\d+(?:\.\d+)?)(?:\s*[-–]\s*)(\d+(?:\.\d+)?)/ at position i:
\* [first: end of group 1, last: end of the match], first = 0 when it does not match
RangeMatch(s, i) ==
    LET a == NumberEnd(s, i)
        j == SkipSpaces(s, a + 1)
        k == SkipSpaces(s, j + 1)
        b == NumberEnd(s, k)
    IN IF a # 0 /\ j <= Len(s) /\ s[j] \in {"-", "{ndash}"} /\ b # 0
       THEN [first |-> a, last |-> b]
       ELSE [first |-> 0, last |-> 0]

\* s.replace(<the range expression>/g, '$1')
RECURSIVE CollapseRanges(_, _)
CollapseRanges(s, i) ==
    IF i > Len(s) THEN <<>>
    ELSE LET m == RangeMatch(s, i)
         IN IF m.first # 0 THEN SubSeq(s, i, m.first) \o CollapseRanges(s, m.last + 1)
            ELSE <<s[i]>> \o CollapseRanges(s, i + 1)

\* t.replace(/[^0-9./]/g, '')
CleanToken(t) == SelectSeq(t, LAMBDA c : c \in Digits \cup {".", "/"})

\* s.split(/\s+/g).map(clean).filter(Boolean)
RECURSIVE Tokens(_)
Tokens(s) ==
    LET t == TrimStart(s)
        e == CHOOSE i \in 0..Len(t) :
                /\ \A j \in 1..i : ~IsSpace(t[j])
                /\ (i = Len(t) \/ IsSpace(t[i + 1]))
        tok == CleanToken(SubSeq(t, 1, e))
    IN IF t = <<>> THEN <<>>
       ELSE (IF tok = <<>> THEN <<>> ELSE <<tok>>) \o Tokens(From(t, e + 1))

\* AddToken without the Number.isNaN test: NaN is added to the total
AddTokenNoNaNTest(total, t) ==
    LET frac == parseFractionToken(t)
        n == parseFloat(t)
    IN IF total = NaN THEN NaN
       ELSE IF frac # NoFraction THEN RAdd(total, frac)
       ELSE IF n # NaN THEN RAdd(total, n)
       ELSE NaN

\* one turn of the for loop over the tokens
AddToken(total, t) ==
    LET frac == parseFractionToken(t)
        n == parseFloat(t)
    IN IF frac # NoFraction THEN RAdd(total, frac)
       ELSE IF n # NaN THEN RAdd(total, n)
       ELSE total

RECURSIVE SumTokens(_, _)
SumTokens(total, ts) ==
    IF ts = <<>> THEN total ELSE SumTokens(AddToken(total, Head(ts)), Tail(ts))

\* parseQuantityToNumber as Number.parseFloat of the whole text (NaN read as 0)
parseQuantityWholeText(input) ==
    IF input = NULL \/ input = <<>> THEN Zero
    ELSE LET n == parseFloat(ToLowerCase(Trim(input)))
         IN IF n = NaN THEN Zero ELSE n

parseQuantityToNumber(input) ==
    IF input = NULL \/ input = <<>> THEN Zero
    ELSE LET s == ToLowerCase(Trim(input))
         IN IF s = <<>> THEN Zero
            ELSE SumTokens(Zero,
                     Tokens(CollapseRanges(RemoveQualifiers(NormalizeFractions(s)), 1)))

-----------------------------------------------------------------------------
(* measurements: quantities in a base unit

   The conversion factors are decimal literals.  4.92892159375 (ml in a
   teaspoon) is 157725491/32000000 and 28.349523125 (g in an ounce) is
   45359237/1600000; every other factor of the two tables is a whole number or
   a whole multiple of one of these (236.5882365 = 48 * 4.92892159375,
   453.59237 = 16 * 28.349523125).  A quantity of ml is therefore kept as
   [u, r], standing for u * 4.92892159375 + r, and a quantity of g as
   u * 28.349523125 + r, with u and r exact rationals: sums, comparisons and
   quotients are exact and their numerals stay small. *)

TspMl == [num |-> 157725491, den |-> 32000000]
OzG == [num |-> 45359237, den |-> 1600000]

One == Int2Rat(1)
Amount(u, r) == [u |-> Int2Rat(u), r |-> Int2Rat(r)]
AZero == Amount(0, 0)
\* the total NaN, and the factor undefined, whose products are NaN
ANaN == [u |-> NaN, r |-> Zero]
UndefinedFactor == [u |-> NoFraction, r |-> NoFraction]
\* total + addend
AAdd(s, t) ==
    IF s = ANaN \/ t = ANaN THEN ANaN ELSE [u |-> RAdd(s.u, t.u), r |-> RAdd(s.r, t.r)]
\* qtyNum * unitInfo.toBaseFactor
AScale(q, f) ==
    IF f = UndefinedFactor \/ q = NaN THEN ANaN ELSE [u |-> RMul(q, f.u), r |-> RMul(q, f.r)]

SignOf(i) == IF i > 0 THEN 1 ELSE IF i < 0 THEN -1 ELSE 0

\* a natural number below 2^31 in three limbs of four decimal digits, high limb first
Limbs(a) == <<a \div 100000000, (a \div 10000) % 10000, a % 10000>>

\* columns of a product, each below 10^9, to limbs: the carries go to the left
RECURSIVE Carry(_, _)
Carry(cols, carry) ==
    IF cols = <<>> THEN <<carry>>
    ELSE Append(Carry(SubSeq(cols, 1, Len(cols) - 1), (cols[Len(cols)] + carry) \div 10000),
                (cols[Len(cols)] + carry) % 10000)

\* the product of two numbers in three limbs, in six limbs
MulColumns(A, B) ==
    Carry(<<A[1] * B[1], A[1] * B[2] + A[2] * B[1], A[1] * B[3] + A[2] * B[2] + A[3] * B[1],
            A[2] * B[3] + A[3] * B[2], A[3] * B[3]>>, 0)

\* the product of two natural numbers below 2^31, in six limbs
MulLimbs(a, b) == MulColumns(Limbs(a), Limbs(b))

\* the sign of X - Y for two numbers in limbs
RECURSIVE CompareLimbs(_, _)
CompareLimbs(X, Y) ==
    IF X = <<>> THEN 0
    ELSE IF Head(X) # Head(Y) THEN SignOf(Head(X) - Head(Y))
    ELSE CompareLimbs(Tail(X), Tail(Y))

\* the sign of P * U.num - Q * U.den for integers P and Q
CompareProducts(P, Q, U) ==
    IF P >= 0 /\ Q >= 0 THEN CompareLimbs(MulLimbs(P, U.num), MulLimbs(Q, U.den))
    ELSE IF P < 0 /\ Q < 0 THEN CompareLimbs(MulLimbs(-Q, U.den), MulLimbs(-P, U.num))
    ELSE IF P >= 0 THEN 1
    ELSE -1

\* the sign of x * U - y for rationals x and y and U = [num, den] > 0
CompareScaled(x, y, U) == CompareProducts(x.n * y.d, y.n * x.d, U)

\* total >= threshold
AGeq(total, threshold, U) ==
    CompareScaled(RSub(total.u, threshold.u), RSub(threshold.r, total.r), U) >= 0

\* the truth value of a total in `if (total)`: it is neither 0 nor NaN
ATruthy(total, U) == total # ANaN /\ CompareScaled(total.u, RSub(Zero, total.r), U) # 0

\* whether h <= cu * U + cr + 1/2 (the divisor is a number of base units) resp.
\* h <= cu + cr / U + 1/2 (it is a number of teaspoons or ounces)
AtMost(h, cu, cr, inBase, U) ==
    IF inBase
    THEN CompareScaled(cu, RSub(Int2Rat(h), RAdd(cr, Rat(1, 2))), U) >= 0
    ELSE CompareScaled(RSub(Int2Rat(h), RAdd(cu, Rat(1, 2))), cr, U) <= 0

\* the integer h near e with h <= 100 * n + 1/2 < h + 1
Hundredths(e, cu, cr, inBase, U) ==
    CHOOSE h \in (e - 2)..(e + 2) :
        AtMost(h, cu, cr, inBase, U) /\ ~AtMost(h + 1, cu, cr, inBase, U)

\* an estimate of 100 * n + 1/2, off by less than 1
Estimate(cu, cr, inBase, approx) ==
    IF inBase THEN RAdd(RMul(cu, approx), RAdd(cr, Rat(1, 2)))
    ELSE RAdd(RAdd(cu, Rat(1, 2)), RDiv(cr, approx))

Floor(x) == x.n \div x.d

\* 100 * total / k in hundredths, for total = u * U + r
RoundScaled(cu, cr, inBase, U) ==
    Rat(Hundredths(Floor(Estimate(cu, cr, inBase,
                                  Rat(U.num \div 10000, U.den \div 10000))),
                   cu, cr, inBase, U), 100)

\* Math.round((n + Number.EPSILON) * 100) / 100 for n = total / divisor, where the
\* divisor is a whole number k of base units (u = 0) or of teaspoons / ounces (r = 0).
\* In hundredths: the integer h with h <= 100 * n + 1/2 < h + 1.
RoundBy(total, k, inBase, U) ==
    RoundScaled(RDiv(RMul(Int2Rat(100), total.u), k), RDiv(RMul(Int2Rat(100), total.r), k),
                inBase, U)

roundForDisplay(total, divisor, U) ==
    IF divisor.u = Zero THEN RoundBy(total, divisor.r, TRUE, U)
    ELSE RoundBy(total, divisor.u, FALSE, U)

-----------------------------------------------------------------------------
(* measurements: the unit classifier *)

\* .replace(/\.$/, '')
StripTrailingPeriod(s) ==
    IF s # <<>> /\ s[Len(s)] = "." THEN SubSeq(s, 1, Len(s) - 1) ELSE s

normalizeUnitString(raw) ==
    StripTrailingPeriod(
        ReplaceSpaceRuns(Trim(ToLowerCase(IF raw = NULL THEN <<>> ELSE raw)), <<" ">>))

\* the factors, in base units
TspFactor == Amount(1, 0)       \* 4.92892159375
TbspFactor == Amount(3, 0)      \* 14.78676478125
CupFactor == Amount(48, 0)      \* 236.5882365
MlFactor == Amount(0, 1)        \* 1
LiterFactor == Amount(0, 1000)  \* 1000
FlOzFactor == Amount(6, 0)      \* 29.5735295625
PintFactor == Amount(96, 0)     \* 473.176473
QuartFactor == Amount(192, 0)   \* 946.352946
GallonFactor == Amount(768, 0)  \* 3785.411784
GramFactor == Amount(0, 1)      \* 1
KiloFactor == Amount(0, 1000)   \* 1000
OunceFactor == Amount(1, 0)     \* 28.349523125
PoundFactor == Amount(16, 0)    \* 453.59237
CountFactor == Amount(0, 1)     \* toBaseFactor: 1
NoFactor == [u |-> NaN, r |-> NaN]  \* toBaseFactor: null

volumeAliases == <<
    [alias |-> <<"t", "s", "p">>, canonical |-> <<"t", "s", "p">>, toMl |-> TspFactor],
    [alias |-> <<"t", "e", "a", "s", "p", "o", "o", "n">>, canonical |-> <<"t", "s", "p">>, toMl |-> TspFactor],
    [alias |-> <<"t", "e", "a", "s", "p", "o", "o", "n", "s">>, canonical |-> <<"t", "s", "p">>, toMl |-> TspFactor],
    [alias |-> <<"t", "b", "s", "p">>, canonical |-> <<"t", "b", "s", "p">>, toMl |-> TbspFactor],
    [alias |-> <<"t", "a", "b", "l", "e", "s", "p", "o", "o", "n">>, canonical |-> <<"t", "b", "s", "p">>, toMl |-> TbspFactor],
    [alias |-> <<"t", "a", "b", "l", "e", "s", "p", "o", "o", "n", "s">>, canonical |-> <<"t", "b", "s", "p">>, toMl |-> TbspFactor],
    [alias |-> <<"c", "u", "p">>, canonical |-> <<"c", "u", "p">>, toMl |-> CupFactor],
    [alias |-> <<"c", "u", "p", "s">>, canonical |-> <<"c", "u", "p">>, toMl |-> CupFactor],
    [alias |-> <<"m", "l">>, canonical |-> <<"m", "l">>, toMl |-> MlFactor],
    [alias |-> <<"m", "i", "l", "l", "i", "l", "i", "t", "e", "r">>, canonical |-> <<"m", "l">>, toMl |-> MlFactor],
    [alias |-> <<"m", "i", "l", "l", "i", "l", "i", "t", "e", "r", "s">>, canonical |-> <<"m", "l">>, toMl |-> MlFactor],
    [alias |-> <<"l">>, canonical |-> <<"l">>, toMl |-> LiterFactor],
    [alias |-> <<"l", "i", "t", "e", "r">>, canonical |-> <<"l">>, toMl |-> LiterFactor],
    [alias |-> <<"l", "i", "t", "e", "r", "s">>, canonical |-> <<"l">>, toMl |-> LiterFactor],
    [alias |-> <<"l", "i", "t", "r", "e">>, canonical |-> <<"l">>, toMl |-> LiterFactor],
    [alias |-> <<"l", "i", "t", "r", "e", "s">>, canonical |-> <<"l">>, toMl |-> LiterFactor],
    [alias |-> <<"f", "l", " ", "o", "z">>, canonical |-> <<"f", "l", " ", "o", "z">>, toMl |-> FlOzFactor],
    [alias |-> <<"f", "l", "o", "z">>, canonical |-> <<"f", "l", " ", "o", "z">>, toMl |-> FlOzFactor],
    [alias |-> <<"f", "l", "u", "i", "d", " ", "o", "u", "n", "c", "e">>, canonical |-> <<"f", "l", " ", "o", "z">>, toMl |-> FlOzFactor],
    [alias |-> <<"f", "l", "u", "i", "d", " ", "o", "u", "n", "c", "e", "s">>, canonical |-> <<"f", "l", " ", "o", "z">>, toMl |-> FlOzFactor],
    [alias |-> <<"p", "t">>, canonical |-> <<"p", "t">>, toMl |-> PintFactor],
    [alias |-> <<"p", "i", "n", "t">>, canonical |-> <<"p", "t">>, toMl |-> PintFactor],
    [alias |-> <<"p", "i", "n", "t", "s">>, canonical |-> <<"p", "t">>, toMl |-> PintFactor],
    [alias |-> <<"q", "t">>, canonical |-> <<"q", "t">>, toMl |-> QuartFactor],
    [alias |-> <<"q", "u", "a", "r", "t">>, canonical |-> <<"q", "t">>, toMl |-> QuartFactor],
    [alias |-> <<"q", "u", "a", "r", "t", "s">>, canonical |-> <<"q", "t">>, toMl |-> QuartFactor],
    [alias |-> <<"g", "a", "l">>, canonical |-> <<"g", "a", "l">>, toMl |-> GallonFactor],
    [alias |-> <<"g", "a", "l", "l", "o", "n">>, canonical |-> <<"g", "a", "l">>, toMl |-> GallonFactor],
    [alias |-> <<"g", "a", "l", "l", "o", "n", "s">>, canonical |-> <<"g", "a", "l">>, toMl |-> GallonFactor] >>

weightAliases == <<
    [alias |-> <<"g">>, canonical |-> <<"g">>, toG |-> GramFactor],
    [alias |-> <<"g", "r", "a", "m">>, canonical |-> <<"g">>, toG |-> GramFactor],
    [alias |-> <<"g", "r", "a", "m", "s">>, canonical |-> <<"g">>, toG |-> GramFactor],
    [alias |-> <<"k", "g">>, canonical |-> <<"k", "g">>, toG |-> KiloFactor],
    [alias |-> <<"k", "i", "l", "o", "g", "r", "a", "m">>, canonical |-> <<"k", "g">>, toG |-> KiloFactor],
    [alias |-> <<"k", "i", "l", "o", "g", "r", "a", "m", "s">>, canonical |-> <<"k", "g">>, toG |-> KiloFactor],
    [alias |-> <<"o", "z">>, canonical |-> <<"o", "z">>, toG |-> OunceFactor],
    [alias |-> <<"o", "u", "n", "c", "e">>, canonical |-> <<"o", "z">>, toG |-> OunceFactor],
    [alias |-> <<"o", "u", "n", "c", "e", "s">>, canonical |-> <<"o", "z">>, toG |-> OunceFactor],
    [alias |-> <<"l", "b">>, canonical |-> <<"l", "b">>, toG |-> PoundFactor],
    [alias |-> <<"l", "b", "s">>, canonical |-> <<"l", "b">>, toG |-> PoundFactor],
    [alias |-> <<"p", "o", "u", "n", "d">>, canonical |-> <<"l", "b">>, toG |-> PoundFactor],
    [alias |-> <<"p", "o", "u", "n", "d", "s">>, canonical |-> <<"l", "b">>, toG |-> PoundFactor] >>

countAliases == {<<"e", "a", "c", "h">>, <<"e", "a">>, <<"p", "c">>, <<"p", "c", "s">>, <<"p", "i", "e", "c", "e">>, <<"p", "i", "e", "c", "e", "s">>}

U_tsp == <<"t", "s", "p">>
U_tbsp == <<"t", "b", "s", "p">>
U_cup == <<"c", "u", "p">>
U_ml == <<"m", "l">>
U_l == <<"l">>
U_g == <<"g">>
U_kg == <<"k", "g">>
U_oz == <<"o", "z">>
U_lb == <<"l", "b">>
U_each == <<"e", "a", "c", "h">>

\* undefined where the code expects a text
Undefined == <<"{undefined}">>

\* the lower-case names that every object literal inherits from Object.prototype
InheritedKeys == {<<"c", "o", "n", "s", "t", "r", "u", "c", "t", "o", "r">>,
                  <<"_", "_", "p", "r", "o", "t", "o", "_", "_">>}

\* what table[u] is for an inherited name: a function or an object, which is truthy
\* and has neither canonical nor toMl nor toG
Inherited(u) ==
    [alias |-> u, canonical |-> Undefined, toMl |-> UndefinedFactor, toG |-> UndefinedFactor]

\* table[u]: the entry of an alias table for the normalized unit u, <<>> for none
Lookup(table, u) ==
    LET hits == {i \in DOMAIN table : table[i].alias = u}
    IN IF hits # {} THEN <<table[CHOOSE i \in hits : TRUE]>>
       ELSE IF u \in InheritedKeys THEN <<Inherited(u)>>
       ELSE <<>>

getUnitInfo(rawUnit) ==
    LET u == normalizeUnitString(rawUnit)
        v == Lookup(volumeAliases, u)
        w == Lookup(weightAliases, u)
    IN IF u = <<>>
       THEN [kind |-> "count", canonicalUnit |-> <<>>, prettyUnit |-> <<>>,
             baseUnit |-> "each", toBaseFactor |-> CountFactor]
       ELSE IF u \in countAliases
       THEN [kind |-> "count", canonicalUnit |-> U_each, prettyUnit |-> U_each,
             baseUnit |-> "each", toBaseFactor |-> CountFactor]
       ELSE IF v # <<>>
       THEN [kind |-> "volume", canonicalUnit |-> v[1].canonical,
             prettyUnit |-> IF v[1].canonical \in {U_l, U_ml, U_tsp, U_tbsp}
                            THEN v[1].canonical ELSE U_cup,
             baseUnit |-> "ml", toBaseFactor |-> v[1].toMl]
       ELSE IF w # <<>>
       THEN [kind |-> "weight", canonicalUnit |-> w[1].canonical,
             prettyUnit |-> w[1].canonical,
             baseUnit |-> "g", toBaseFactor |-> w[1].toG]
       ELSE [kind |-> "unknown", canonicalUnit |-> u,
             prettyUnit |-> IF rawUnit # NULL /\ rawUnit # <<>> THEN rawUnit ELSE u,
             baseUnit |-> "null", toBaseFactor |-> NoFactor]

-----------------------------------------------------------------------------
(* measurements: the display unit and quantity of a total *)

\* VolumeDivisor with a cup of 237 ml
VolumeDivisorRoundCup(unit) ==
    IF unit = U_l THEN Amount(0, 1000)
    ELSE IF unit = U_ml THEN Amount(0, 1)
    ELSE IF unit = U_cup THEN Amount(0, 237)
    ELSE IF unit = U_tbsp THEN TbspFactor
    ELSE TspFactor

\* the divisor of a display unit of volume
VolumeDivisor(unit) ==
    IF unit = U_l THEN Amount(0, 1000)
    ELSE IF unit = U_ml THEN Amount(0, 1)
    ELSE IF unit = U_cup THEN CupFactor
    ELSE IF unit = U_tbsp THEN TbspFactor
    ELSE TspFactor

\* { quantity: roundForDisplay(total / divisor), unit }
Shown(total, unit, divisor, U) ==
    [quantity |-> roundForDisplay(total, divisor, U), unit |-> unit]

\* VolumeUnit without the preference for cups
VolumeUnitNoCupPreference(totalMl, preferred) ==
    IF U_l \in preferred \/ AGeq(totalMl, Amount(0, 1000), TspMl) THEN U_l
    ELSE IF AGeq(totalMl, Amount(12, 0), TspMl) THEN U_cup
    ELSE IF U_tbsp \in preferred \/ AGeq(totalMl, TbspFactor, TspMl) THEN U_tbsp
    ELSE IF U_tsp \in preferred \/ AGeq(totalMl, TspFactor, TspMl) THEN U_tsp
    ELSE IF U_ml \in preferred THEN U_ml ELSE U_tsp

\* the display unit of a volume
VolumeUnit(totalMl, preferred) ==
    IF U_l \in preferred \/ AGeq(totalMl, Amount(0, 1000), TspMl) THEN U_l
    ELSE IF U_cup \in preferred \/ AGeq(totalMl, Amount(12, 0), TspMl) THEN U_cup
    ELSE IF U_tbsp \in preferred \/ AGeq(totalMl, TbspFactor, TspMl) THEN U_tbsp
    ELSE IF U_tsp \in preferred \/ AGeq(totalMl, TspFactor, TspMl) THEN U_tsp
    ELSE IF U_ml \in preferred THEN U_ml ELSE U_tsp

\* the quantity of a volume in a display unit
ShownVolume(totalMl, unit) == Shown(totalMl, unit, VolumeDivisor(unit), TspMl)

formatVolumeFromMl(totalMl, preferredCanonicalUnits) ==
    ShownVolume(totalMl, VolumeUnit(totalMl, preferredCanonicalUnits))

\* WeightDivisor with a pound of 454 g
WeightDivisorRoundPound(unit) ==
    IF unit = U_kg THEN Amount(0, 1000)
    ELSE IF unit = U_lb THEN Amount(0, 454)
    ELSE IF unit = U_oz THEN Amount(1, 0)
    ELSE Amount(0, 1)

\* the divisor of a display unit of weight
WeightDivisor(unit) ==
    IF unit = U_kg THEN Amount(0, 1000)
    ELSE IF unit = U_lb THEN Amount(16, 0)
    ELSE IF unit = U_oz THEN Amount(1, 0)
    ELSE Amount(0, 1)

\* WeightUnit with the tests for pounds and ounces in the other order
WeightUnitOuncesFirst(totalG, preferred) ==
    IF U_kg \in preferred \/ AGeq(totalG, Amount(0, 1000), OzG) THEN U_kg
    ELSE IF U_oz \in preferred \/ AGeq(totalG, Amount(1, 0), OzG) THEN U_oz
    ELSE IF U_lb \in preferred \/ AGeq(totalG, Amount(16, 0), OzG) THEN U_lb
    ELSE U_g

\* the display unit of a weight
WeightUnit(totalG, preferred) ==
    IF U_kg \in preferred \/ AGeq(totalG, Amount(0, 1000), OzG) THEN U_kg
    ELSE IF U_lb \in preferred \/ AGeq(totalG, Amount(16, 0), OzG) THEN U_lb
    ELSE IF U_oz \in preferred \/ AGeq(totalG, Amount(1, 0), OzG) THEN U_oz
    ELSE U_g

\* the quantity of a weight in a display unit
ShownWeight(totalG, unit) == Shown(totalG, unit, WeightDivisor(unit), OzG)

formatWeightFromG(totalG, preferredCanonicalUnits) ==
    ShownWeight(totalG, WeightUnit(totalG, preferredCanonicalUnits))

-----------------------------------------------------------------------------
(* recipes page: aisle and ingredient-name normalisation *)

\* one element of a pattern: this stands for \s+, any other element is a literal word
WS == <<"{\\s+}">>

\* index of the last character of the match of pattern pat in s at position i,
\* -1 when the pattern does not match there
RECURSIVE PatEnd(_, _, _)
PatEnd(s, i, pat) ==
    IF pat = <<>> THEN i - 1
    ELSE IF Head(pat) = WS
    THEN IF i <= Len(s) /\ IsSpace(s[i]) THEN PatEnd(s, SkipSpaces(s, i), Tail(pat)) ELSE -1
    ELSE IF HasAt(s, i, Head(pat)) THEN PatEnd(s, i + Len(Head(pat)), Tail(pat)) ELSE -1

\* s.replace(/pat/g, r)
RECURSIVE ReplacePattern(_, _, _)
ReplacePattern(s, pat, r) ==
    IF s = <<>> THEN <<>>
    ELSE LET e == PatEnd(s, 1, pat)
         IN IF e >= 1 THEN r \o ReplacePattern(From(s, e + 1), pat, r)
            ELSE <<Head(s)>> \o ReplacePattern(Tail(s), pat, r)

\* s.split(' ').map(word => word.charAt(0).toUpperCase() + word.slice(1)).join(' ')
CapitalizeWords(s) ==
    [i \in 1..Len(s) |-> IF i = 1 \/ s[i - 1] = " " THEN UpperChar(s[i]) ELSE s[i]]

T_Other == <<"O", "t", "h", "e", "r">>

\* the aisle renamings of normalizeAisle, in the order they are applied
AisleReplacements == <<
    [pat |-> <<WS, <<"a", "n", "d">>, WS>>, by |-> <<" ", "&", " ">>],
    [pat |-> << <<"/">> >>, by |-> <<" ", "&", " ">>],
    [pat |-> << <<"d", "a", "i", "r", "y">>, WS, <<"&">>, WS, <<"e", "g", "g", "s">> >>,
     by |-> <<"D", "a", "i", "r", "y", " ", "&", " ", "E", "g", "g", "s">>],
    [pat |-> << <<"p", "r", "o", "d", "u", "c", "e">> >>,
     by |-> <<"P", "r", "o", "d", "u", "c", "e">>],
    [pat |-> << <<"m", "e", "a", "t">>, WS, <<"&">>, WS,
                <<"s", "e", "a", "f", "o", "o", "d">> >>,
     by |-> <<"M", "e", "a", "t", " ", "&", " ", "S", "e", "a", "f", "o", "o", "d">>],
    [pat |-> << <<"p", "a", "n", "t", "r", "y">> >>, by |-> <<"P", "a", "n", "t", "r", "y">>],
    [pat |-> << <<"b", "a", "k", "e", "r", "y">> >>, by |-> <<"B", "a", "k", "e", "r", "y">>],
    [pat |-> << <<"f", "r", "o", "z", "e", "n">> >>, by |-> <<"F", "r", "o", "z", "e", "n">>],
    [pat |-> << <<"b", "e", "v", "e", "r", "a", "g", "e", "s">> >>,
     by |-> <<"B", "e", "v", "e", "r", "a", "g", "e", "s">>],
    [pat |-> << <<"s", "p", "i", "c", "e", "s">> >>, by |-> <<"S", "p", "i", "c", "e", "s">>],
    [pat |-> << <<"b", "a", "k", "i", "n", "g">> >>, by |-> <<"B", "a", "k", "i", "n", "g">>] >>

RECURSIVE ApplyReplacements(_, _)
ApplyReplacements(s, k) ==
    IF k > Len(AisleReplacements) THEN s
    ELSE ApplyReplacements(
            ReplacePattern(s, AisleReplacements[k].pat, AisleReplacements[k].by), k + 1)

normalizeAisle(aisle) ==
    IF aisle = NULL \/ aisle = <<>> THEN T_Other
    ELSE CapitalizeWords(ApplyReplacements(Trim(ToLowerCase(aisle)), 1))

normalizeIngredientName(name) ==
    IF name = NULL \/ name = <<>> THEN <<>>
    ELSE ReplaceSpaceRuns(ReplaceChar(Trim(ToLowerCase(name)), "-", <<" ">>), <<" ">>)

-----------------------------------------------------------------------------
(* String.prototype.localeCompare and Array.prototype.sort *)

\* the characters in collation order: white space and punctuation, digits, letters
CollationOrder ==
    <<"\t", " ", "_", "-", ",", ";", ":", "!", "?", ".", "'", "(", ")", "[", "]", "{", "}",
      "@", "*", "/", "&", "#", "%", "+", "<", "=", ">", "|", "~", "$",
      "0", "1", "2", "3", "4", "5", "6", "7", "8", "9">> \o LowerChars

\* primary weight of a character: its place in the collation order, case ignored
PrimaryWeight(c) ==
    LET l == LowerChar(c)
        at == {i \in DOMAIN CollationOrder : CollationOrder[i] = l}
    IN IF at = {} THEN Len(CollationOrder) + 1 ELSE CHOOSE i \in at : TRUE

\* comparison of two texts by a weight of their characters: -1, 0 or 1
RECURSIVE CompareBy(_, _, _)
CompareBy(a, b, weight) ==
    IF a = <<>> /\ b = <<>> THEN 0
    ELSE IF a = <<>> THEN -1
    ELSE IF b = <<>> THEN 1
    ELSE IF weight[Head(a)] < weight[Head(b)] THEN -1
    ELSE IF weight[Head(a)] > weight[Head(b)] THEN 1
    ELSE CompareBy(Tail(a), Tail(b), weight)

\* a.localeCompare(b): by primary weights first, lower case before upper case on a tie
localeCompare(a, b) ==
    LET chars == {a[i] : i \in DOMAIN a} \cup {b[i] : i \in DOMAIN b}
        primary == [c \in chars |-> PrimaryWeight(c)]
        tertiary == [c \in chars |-> IF c \in UpperSet THEN 1 ELSE 0]
        p == CompareBy(a, b, primary)
    IN IF p # 0 THEN p ELSE CompareBy(a, b, tertiary)

\* insertion of x into the sorted sequence xs, after the elements that compare equal
RECURSIVE InsertSorted(_, _)
InsertSorted(xs, x) ==
    IF xs = <<>> THEN <<x>>
    ELSE IF localeCompare(x, Head(xs)) < 0 THEN <<x>> \o xs
    ELSE <<Head(xs)>> \o InsertSorted(Tail(xs), x)

\* xs.sort((a, b) => a.localeCompare(b))
RECURSIVE SortTexts(_)
SortTexts(xs) ==
    IF xs = <<>> THEN <<>>
    ELSE InsertSorted(SortTexts(SubSeq(xs, 1, Len(xs) - 1)), xs[Len(xs)])

-----------------------------------------------------------------------------
(* Objects, Maps and Sets: a Map and a Set keep their entries in insertion order,
   an object lists the properties named like array indices first *)

\* key in map
MapHas(m, k) == \E i \in DOMAIN m : m[i].key = k

\* map[key]
MapGet(m, k) == m[CHOOSE i \in DOMAIN m : m[i].key = k].val

\* map[key] = val
MapPut(m, k, v) ==
    IF MapHas(m, k)
    THEN [i \in DOMAIN m |-> IF m[i].key = k THEN [key |-> k, val |-> v] ELSE m[i]]
    ELSE Append(m, [key |-> k, val |-> v])

\* whether a property name is an array index ("0", "7", "12"): an object lists these
\* properties first, in ascending order (numerals of up to nine digits)
IsIndexKey(k) ==
    /\ k # <<>> /\ Len(k) <= 9
    /\ \A i \in DOMAIN k : IsDigit(k[i])
    /\ (Len(k) = 1 \/ k[1] # "0")

\* whether a new property k of an object comes before the property e
ListedBefore(k, e) == IsIndexKey(k) /\ (~IsIndexKey(e) \/ DigitsToNat(k) < DigitsToNat(e))

\* the entries of an object and a new property, in the order of Object.entries
RECURSIVE ObjInsert(_, _, _)
ObjInsert(m, k, v) ==
    IF m = <<>> THEN <<[key |-> k, val |-> v]>>
    ELSE IF ListedBefore(k, Head(m).key) THEN <<[key |-> k, val |-> v]>> \o m
    ELSE <<Head(m)>> \o ObjInsert(Tail(m), k, v)

\* object[key] = val, the object kept as the sequence Object.entries gives
ObjPut(m, k, v) == IF MapHas(m, k) THEN MapPut(m, k, v) ELSE ObjInsert(m, k, v)

\* set.add(x)
SetAdd(s, x) == IF \E i \in DOMAIN s : s[i] = x THEN s ELSE Append(s, x)

-----------------------------------------------------------------------------
(* recipes page: generateGroceryList *)

\* value || '' of a text that may be missing
OrEmpty(t) == IF t = NULL THEN <<>> ELSE t

\* the Agg made for an ingredient name that is new in its aisle
NewAgg(ing) ==
    [displayName |-> Trim(OrEmpty(ing.name)),
     sources |-> <<>>,
     countTotal |-> Zero,
     volumeMlTotal |-> AZero,
     weightGTotal |-> AZero,
     preferredVolumeUnits |-> {},
     preferredWeightUnits |-> {},
     unknownTotals |-> <<>>]

\* AddLine with one total for Volume and Weight lines
AddLineOneTotal(agg, title, ing, qtyNum, unitInfo) ==
    LET a == [agg EXCEPT !.sources = SetAdd(@, title),
                         !.displayName = IF @ = <<>> THEN Trim(OrEmpty(ing.name)) ELSE @]
    IN IF unitInfo.kind = "count"
       THEN [a EXCEPT !.countTotal = RAdd(@, qtyNum)]
       ELSE IF unitInfo.kind \in {"volume", "weight"}
       THEN [a EXCEPT !.volumeMlTotal = AAdd(@, AScale(qtyNum, unitInfo.toBaseFactor)),
                      !.preferredVolumeUnits = @ \cup {unitInfo.canonicalUnit}]
       ELSE LET key == unitInfo.prettyUnit
                prev == IF MapHas(a.unknownTotals, key) THEN MapGet(a.unknownTotals, key)
                        ELSE Zero
            IN [a EXCEPT !.unknownTotals = MapPut(@, key, RAdd(prev, qtyNum))]

\* AddLine with the count total set to the quantity of the line, not added to
AddLineCountLast(agg, title, ing, qtyNum, unitInfo) ==
    LET a == [agg EXCEPT !.sources = SetAdd(@, title),
                         !.displayName = IF @ = <<>> THEN Trim(OrEmpty(ing.name)) ELSE @]
    IN IF unitInfo.kind = "count"
       THEN [a EXCEPT !.countTotal = qtyNum]
       ELSE IF unitInfo.kind = "volume"
       THEN [a EXCEPT !.volumeMlTotal = AAdd(@, AScale(qtyNum, unitInfo.toBaseFactor)),
                      !.preferredVolumeUnits = @ \cup {unitInfo.canonicalUnit}]
       ELSE IF unitInfo.kind = "weight"
       THEN [a EXCEPT !.weightGTotal = AAdd(@, AScale(qtyNum, unitInfo.toBaseFactor)),
                      !.preferredWeightUnits = @ \cup {unitInfo.canonicalUnit}]
       ELSE LET key == unitInfo.prettyUnit
                prev == IF MapHas(a.unknownTotals, key) THEN MapGet(a.unknownTotals, key)
                        ELSE Zero
            IN [a EXCEPT !.unknownTotals = MapPut(@, key, RAdd(prev, qtyNum))]

\* the Agg after one ingredient line of the recipe titled title
\* AddLine that adds the written quantity of a volume or weight line as it is
AddLineNoFactor(agg, title, ing, qtyNum, unitInfo) ==
    LET a == [agg EXCEPT !.sources = SetAdd(@, title),
                         !.displayName = IF @ = <<>> THEN Trim(OrEmpty(ing.name)) ELSE @]
    IN IF unitInfo.kind = "count"
       THEN [a EXCEPT !.countTotal = RAdd(@, qtyNum)]
       ELSE IF unitInfo.kind = "volume"
       THEN [a EXCEPT !.volumeMlTotal = AAdd(@, AScale(qtyNum, Amount(0, 1))),
                      !.preferredVolumeUnits = @ \cup {unitInfo.canonicalUnit}]
       ELSE IF unitInfo.kind = "weight"
       THEN [a EXCEPT !.weightGTotal = AAdd(@, AScale(qtyNum, Amount(0, 1))),
                      !.preferredWeightUnits = @ \cup {unitInfo.canonicalUnit}]
       ELSE LET key == unitInfo.prettyUnit
                prev == IF MapHas(a.unknownTotals, key) THEN MapGet(a.unknownTotals, key)
                        ELSE Zero
            IN [a EXCEPT !.unknownTotals = MapPut(@, key, RAdd(prev, qtyNum))]

\* AddLine whose volume and weight totals are those of the last line
AddLineLastTotal(agg, title, ing, qtyNum, unitInfo) ==
    LET a == [agg EXCEPT !.sources = SetAdd(@, title),
                         !.displayName = IF @ = <<>> THEN Trim(OrEmpty(ing.name)) ELSE @]
    IN IF unitInfo.kind = "count"
       THEN [a EXCEPT !.countTotal = RAdd(@, qtyNum)]
       ELSE IF unitInfo.kind = "volume"
       THEN [a EXCEPT !.volumeMlTotal = AScale(qtyNum, unitInfo.toBaseFactor),
                      !.preferredVolumeUnits = @ \cup {unitInfo.canonicalUnit}]
       ELSE IF unitInfo.kind = "weight"
       THEN [a EXCEPT !.weightGTotal = AScale(qtyNum, unitInfo.toBaseFactor),
                      !.preferredWeightUnits = @ \cup {unitInfo.canonicalUnit}]
       ELSE LET key == unitInfo.prettyUnit
                prev == IF MapHas(a.unknownTotals, key) THEN MapGet(a.unknownTotals, key)
                        ELSE Zero
            IN [a EXCEPT !.unknownTotals = MapPut(@, key, RAdd(prev, qtyNum))]

AddLine(agg, title, ing, qtyNum, unitInfo) ==
    LET a == [agg EXCEPT !.sources = SetAdd(@, title),
                         !.displayName = IF @ = <<>> THEN Trim(OrEmpty(ing.name)) ELSE @]
    IN IF unitInfo.kind = "count"
       THEN [a EXCEPT !.countTotal = RAdd(@, qtyNum)]
       ELSE IF unitInfo.kind = "volume"
       THEN [a EXCEPT !.volumeMlTotal = AAdd(@, AScale(qtyNum, unitInfo.toBaseFactor)),
                      !.preferredVolumeUnits = @ \cup {unitInfo.canonicalUnit}]
       ELSE IF unitInfo.kind = "weight"
       THEN [a EXCEPT !.weightGTotal = AAdd(@, AScale(qtyNum, unitInfo.toBaseFactor)),
                      !.preferredWeightUnits = @ \cup {unitInfo.canonicalUnit}]
       ELSE LET key == unitInfo.prettyUnit
                prev == IF MapHas(a.unknownTotals, key) THEN MapGet(a.unknownTotals, key)
                        ELSE Zero
            IN [a EXCEPT !.unknownTotals = MapPut(@, key, RAdd(prev, qtyNum))]

\* CollectLine with the aisle as written for key
CollectLineRawAisle(byAisle, title, ing) ==
    LET aisle == OrEmpty(ing.aisle)
        nameKey == normalizeIngredientName(ing.name)
        qtyNum == parseQuantityToNumber(ing.quantity)
        unitInfo == getUnitInfo(ing.unit)
        byName == IF MapHas(byAisle, aisle) THEN MapGet(byAisle, aisle) ELSE <<>>
        agg == IF MapHas(byName, nameKey) THEN MapGet(byName, nameKey) ELSE NewAgg(ing)
    IN IF nameKey = <<>> THEN byAisle
       ELSE ObjPut(byAisle, aisle,
                   ObjPut(byName, nameKey, AddLine(agg, title, ing, qtyNum, unitInfo)))

\* CollectLine without the return for a line that has no name
CollectLineNoSkip(byAisle, title, ing) ==
    LET aisle == normalizeAisle(ing.aisle)
        nameKey == normalizeIngredientName(ing.name)
        qtyNum == parseQuantityToNumber(ing.quantity)
        unitInfo == getUnitInfo(ing.unit)
        byName == IF MapHas(byAisle, aisle) THEN MapGet(byAisle, aisle) ELSE <<>>
        agg == IF MapHas(byName, nameKey) THEN MapGet(byName, nameKey) ELSE NewAgg(ing)
    IN ObjPut(byAisle, aisle,
              ObjPut(byName, nameKey, AddLine(agg, title, ing, qtyNum, unitInfo)))

\* the body of recipe.ingredients.forEach: aggByAisle after the line ing of the
\* recipe titled title
CollectLine(byAisle, title, ing) ==
    LET aisle == normalizeAisle(ing.aisle)
        nameKey == normalizeIngredientName(ing.name)
        qtyNum == parseQuantityToNumber(ing.quantity)
        unitInfo == getUnitInfo(ing.unit)
        byName == IF MapHas(byAisle, aisle) THEN MapGet(byAisle, aisle) ELSE <<>>
        agg == IF MapHas(byName, nameKey) THEN MapGet(byName, nameKey) ELSE NewAgg(ing)
    IN IF nameKey = <<>> THEN byAisle
       ELSE ObjPut(byAisle, aisle,
                   ObjPut(byName, nameKey, AddLine(agg, title, ing, qtyNum, unitInfo)))

K_count == <<"|", "c", "o", "u", "n", "t">>
K_volume == <<"|", "v", "o", "l", "u", "m", "e">>
K_weight == <<"|", "w", "e", "i", "g", "h", "t">>
K_unknown == <<"|", "u", "n", "k", "n", "o", "w", "n", "|">>
K_unitless == <<"u", "n", "i", "t", "l", "e", "s", "s">>

\* the loop over agg.unknownTotals.entries(): rows after the rows of the unknown totals
RECURSIVE UnknownRows(_, _, _, _, _, _)
UnknownRows(rows, aisle, nameKey, displayName, sources, unknown) ==
    IF unknown = <<>> THEN rows
    ELSE LET unitLabel == Head(unknown).key
             qty == Head(unknown).val
             key == nameKey \o K_unknown \o (IF unitLabel = <<>> THEN K_unitless ELSE unitLabel)
         IN UnknownRows(
                ObjPut(rows, key, [quantity |-> qty, unit |-> unitLabel, aisle |-> aisle,
                                   name |-> displayName, sources |-> sources]),
                aisle, nameKey, displayName, sources, Tail(unknown))

\* a display row of quantity and unit q
DisplayRow(q, aisle, displayName, sources) ==
    [quantity |-> q.quantity, unit |-> q.unit, aisle |-> aisle, name |-> displayName,
     sources |-> sources]

\* if (total) rows[key] = row
PutIf(total, rows, key, row) == IF total THEN ObjPut(rows, key, row) ELSE rows

\* the rows of one Agg, given its sorted sources and its display name
RowsOfAgg(rows, aisle, nameKey, agg, sources, displayName) ==
    UnknownRows(
        PutIf(ATruthy(agg.weightGTotal, OzG),
              PutIf(ATruthy(agg.volumeMlTotal, TspMl),
                    PutIf(agg.countTotal # Zero, rows, nameKey \o K_count,
                          DisplayRow([quantity |-> agg.countTotal, unit |-> <<>>],
                                     aisle, displayName, sources)),
                    nameKey \o K_volume,
                    DisplayRow(formatVolumeFromMl(agg.volumeMlTotal,
                                                  agg.preferredVolumeUnits),
                               aisle, displayName, sources)),
              nameKey \o K_weight,
              DisplayRow(formatWeightFromG(agg.weightGTotal, agg.preferredWeightUnits),
                         aisle, displayName, sources)),
        aisle, nameKey, displayName, sources, agg.unknownTotals)

\* the body of the loop over nameEntries: rows after the rows of one Agg
AggRows(rows, aisle, nameKey, agg) ==
    RowsOfAgg(rows, aisle, nameKey, agg, SortTexts(agg.sources),
              IF agg.displayName = <<>> THEN nameKey ELSE agg.displayName)

\* the loop over nameEntries, which are sorted by name
RECURSIVE NameRows(_, _, _, _)
NameRows(rows, aisle, byName, names) ==
    IF names = <<>> THEN rows
    ELSE NameRows(AggRows(rows, aisle, Head(names), MapGet(byName, Head(names))),
                  aisle, byName, Tail(names))

\* the loop over Object.entries(aggByAisle): combined after the aisles of byAisle
RECURSIVE AisleRows(_, _)
AisleRows(comb, byAisle) ==
    IF byAisle = <<>> THEN comb
    ELSE LET aisle == Head(byAisle).key
             byName == Head(byAisle).val
             rows == IF MapHas(comb, aisle) THEN MapGet(comb, aisle) ELSE <<>>
             names == SortTexts([i \in DOMAIN byName |-> byName[i].key])
         IN AisleRows(ObjPut(comb, aisle, NameRows(rows, aisle, byName, names)),
                      Tail(byAisle))

-----------------------------------------------------------------------------
(* The quantity parser applied to one argument *)

\* longest argument, counted in pieces
MaxPieces == 3

\* the pieces the arguments are put together from
QtyPieces == {
    <<"0">>, <<"1">>, <<"2">>, <<"1", "/", "2">>, <<"3", "/", "4">>, <<"1", ".", "5">>,
    <<".">>, <<"/">>, <<"-">>, <<" ", "-", " ">>, <<"{ndash}">>, <<" ">>,
    <<"{1/2}">>, <<"{1/4}">>, <<"~">>, <<"x">>,
    <<"a", "b", "o", "u", "t">>, <<"A", "p", "p", "r", "o", "x">> }

RECURSIVE Flatten(_)
Flatten(ps) == IF ps = <<>> THEN <<>> ELSE Head(ps) \o Flatten(Tail(ps))

QtyTexts == {Flatten(ps) : ps \in UNION {[1..k -> QtyPieces] : k \in 0..MaxPieces}}

AggInit ==
    /\ processed = <<>>
    /\ aggByAisle = <<>>
    /\ combined = <<>>
    /\ pc = "collect"

\* no call of getUnitInfo or of a format function is under way
UnitIdle == uIn = NULL /\ uOut = <<>>
FormatIdle == fIn = [family |-> "none"] /\ fOut = <<>>
ParseIdle == qIn = NULL /\ qOut = <<>>
\* no run of generateGroceryList over a fixed selection is under way
RunIdle == recipes = <<>> /\ runs = <<>>
\* no call of normalizeIngredientName on its own is under way
NameIdle == nIn = NULL /\ nOut = <<>>
\* no request and no page is there
UploadIdle == up = [stage |-> "none"]
SaveIdle == dbs = [stage |-> "none"] /\ saves = <<>>
PageIdle == page = [stage |-> "none"] /\ stored = {}
AfterNameIdle == UploadIdle /\ SaveIdle /\ PageIdle
AfterRunIdle == NameIdle /\ AfterNameIdle
AfterAggIdle == RunIdle /\ AfterRunIdle

InitParse ==
    /\ qIn \in QtyTexts \cup {NULL}
    /\ qOut = <<>>
    /\ UnitIdle /\ FormatIdle /\ AfterAggIdle
    /\ AggInit

ParseQuantity ==
    /\ qOut = <<>>
    /\ qOut' = <<parseQuantityToNumber(qIn)>>
    /\ UNCHANGED <<qIn, unitVars, formatVars, aggVars, afterAggVars>>

NextParse == ParseQuantity

SpecParse == InitParse /\ [][NextParse]_vars

-----------------------------------------------------------------------------
(* The unit classifier applied to one argument *)

\* most spaces put before, between and after the parts of an argument
MaxPad == 1

\* the words the arguments are put together from: every alias, and words no table has
UnitWords ==
    {volumeAliases[i].alias : i \in DOMAIN volumeAliases}
        \cup {weightAliases[i].alias : i \in DOMAIN weightAliases}
        \cup countAliases \cup InheritedKeys
        \cup {<<>>, <<"k", "n", "o", "b">>, <<"p", "i", "n", "c", "h">>,
              <<"c", "u", "p", " ", "s">>, <<"t", "o", "s", "t", "r", "i", "n", "g">>}

RECURSIVE Spaces(_)
Spaces(k) == IF k = 0 THEN <<>> ELSE <<" ">> \o Spaces(k - 1)

\* the words as they may be written: capitals, longer runs of white space
Spellings(w) ==
    {w, Capitalised(w), UpperCased(w)}
        \cup {ReplaceSpaceRuns(w, Spaces(k)) : k \in 1..(MaxPad + 1)}
        \cup {ReplaceChar(w, " ", <<"\t">>)}

\* the arguments: a spelling of a word, spaces around it, periods after it
UnitTexts ==
    {Spaces(a) \o s \o Spaces(b) \o dots \o Spaces(c) :
        s \in UNION {Spellings(w) : w \in UnitWords},
        a \in 0..MaxPad, b \in 0..MaxPad, c \in 0..MaxPad,
        dots \in {<<>>, <<".">>, <<".", ".">>}}

InitUnit ==
    /\ uIn \in UnitTexts \cup {NULL}
    /\ uOut = <<>>
    /\ ParseIdle /\ FormatIdle /\ AfterAggIdle
    /\ AggInit

ClassifyUnit ==
    /\ uOut = <<>>
    /\ uOut' = <<getUnitInfo(uIn)>>
    /\ UNCHANGED <<uIn, parseVars, formatVars, aggVars, afterAggVars>>

NextUnit == ClassifyUnit

SpecUnit == InitUnit /\ [][NextUnit]_vars

-----------------------------------------------------------------------------
(* The grocery list of the selected recipes *)

\* most ingredient lines visited in one run of generateGroceryList
MaxLines == 3

\* the ingredient lines of the selected recipes, each with the title of its recipe
RecipeLines == {
    [title |-> <<"A">>,
     ing |-> [name |-> <<"f", "l", "o", "u", "r">>, quantity |-> <<"2">>, unit |-> <<"c", "u", "p", "s">>, aisle |-> <<"B", "a", "k", "i", "n", "g">>]],
    [title |-> <<"B">>,
     ing |-> [name |-> <<"F", "l", "o", "u", "r">>, quantity |-> <<"1", "/", "2">>, unit |-> <<"c", "u", "p">>, aisle |-> <<"b", "a", "k", "i", "n", "g">>]],
    [title |-> <<"B">>,
     ing |-> [name |-> <<"s", "u", "g", "a", "r">>, quantity |-> <<"2", "0", "0">>, unit |-> <<"g">>, aisle |-> <<"B", "a", "k", "i", "n", "g">>]],
    [title |-> <<"A">>,
     ing |-> [name |-> <<"f", "l", "o", "u", "r">>, quantity |-> <<"3">>, unit |-> <<>>, aisle |-> <<"B", "a", "k", "i", "n", "g">>]],
    [title |-> <<"A">>,
     ing |-> [name |-> <<"f", "l", "o", "u", "r">>, quantity |-> <<"1">>, unit |-> <<"k", "n", "o", "b">>, aisle |-> <<"B", "a", "k", "i", "n", "g">>]],
    [title |-> <<"B">>,
     ing |-> [name |-> <<"f", "l", "o", "u", "r">>, quantity |-> <<"2">>, unit |-> <<"k", "n", "o", "b">>, aisle |-> <<"B", "a", "k", "i", "n", "g">>]],
    [title |-> <<"B">>,
     ing |-> [name |-> <<"f", "l", "o", "u", "r">>, quantity |-> <<"2">>, unit |-> <<"K", "n", "o", "b">>, aisle |-> <<"B", "a", "k", "i", "n", "g">>]],
    [title |-> <<"A">>,
     ing |-> [name |-> <<"f", "l", "o", "u", "r">>, quantity |-> <<"1">>, unit |-> <<"p", "i", "n", "c", "h">>, aisle |-> <<"B", "a", "k", "i", "n", "g">>]],
    [title |-> <<"A">>,
     ing |-> [name |-> <<"f", "l", "o", "u", "r">>, quantity |-> <<"x">>, unit |-> <<"k", "n", "o", "b">>, aisle |-> <<"B", "a", "k", "i", "n", "g">>]],
    [title |-> <<"B">>,
     ing |-> [name |-> <<"f", "l", "o", "u", "r">>, quantity |-> <<"1">>, unit |-> <<"c", "u", "p">>, aisle |-> <<"P", "a", "n", "t", "r", "y">>]],
    [title |-> <<"A">>,
     ing |-> [name |-> <<"s", "u", "g", "a", "r">>, quantity |-> <<"1">>, unit |-> <<"c", "u", "p">>, aisle |-> <<"B", "a", "k", "i", "n", "g">>]],
    [title |-> <<"A">>,
     ing |-> [name |-> <<>>, quantity |-> <<"1">>, unit |-> <<"c", "u", "p">>, aisle |-> <<"B", "a", "k", "i", "n", "g">>]],
    [title |-> <<"B">>,
     ing |-> [name |-> <<"e", "g", "g", "s">>, quantity |-> <<>>, unit |-> <<>>, aisle |-> <<>>]] }

Init ==
    /\ ParseIdle /\ UnitIdle /\ FormatIdle /\ AfterAggIdle
    /\ AggInit

\* one turn of recipe.ingredients.forEach, for recipes with the ingredient lines
\* lines and at most maxLines turns
ProcessLineFrom(lines, maxLines) ==
    /\ pc = "collect"
    /\ Len(processed) < maxLines
    /\ \E line \in lines :
          /\ processed' = Append(processed, line)
          /\ aggByAisle' = CollectLine(aggByAisle, line.title, line.ing)
          /\ IF normalizeIngredientName(line.ing.name) = <<>>
             THEN UNCHANGED <<qIn, qOut>>
             ELSE /\ qIn' = line.ing.quantity
                  /\ qOut' = <<parseQuantityToNumber(line.ing.quantity)>>
    /\ UNCHANGED <<combined, pc, unitVars, formatVars, afterAggVars>>

ProcessLine == ProcessLineFrom(RecipeLines, MaxLines)

\* the conversion of the totals into display rows, and the return
BuildRows ==
    /\ pc = "collect"
    /\ combined' = AisleRows(<<>>, aggByAisle)
    /\ pc' = "done"
    /\ UNCHANGED <<parseVars, unitVars, formatVars, processed, aggByAisle, afterAggVars>>

Next == ProcessLine \/ BuildRows

Spec == Init /\ [][Next]_vars

-----------------------------------------------------------------------------
(* The grocery list of recipes with nameless lines, blank aisles and counts *)

\* most ingredient lines visited in one run over these recipes
MaxEdge == 3

T_A == <<"A">>
T_B == <<"B">>
T_Baking == <<"B", "a", "k", "i", "n", "g">>
T_flour == <<"f", "l", "o", "u", "r">>
T_sugar == <<"s", "u", "g", "a", "r">>
T_knob == <<"k", "n", "o", "b">>
T_pinch == <<"p", "i", "n", "c", "h">>
T_eggs == <<"e", "g", "g", "s">>
T_apple == <<"a", "p", "p", "l", "e">>
T_Dairy == <<"D", "a", "i", "r", "y">>
T_7 == <<"7">>
T_blank == <<" ", " ">>

\* an ingredient line of a recipe
LineOf(title, name, quantity, unit, aisle) ==
    [title |-> title,
     ing |-> [name |-> name, quantity |-> quantity, unit |-> unit, aisle |-> aisle]]

\* ingredient lines without a name, without an aisle, with counts under several
\* aliases, with an aisle that is a number, and with every family for one ingredient
EdgeLines == {
    LineOf(T_A, <<>>, <<"1">>, U_cup, T_Baking),
    LineOf(T_B, T_blank, <<"2">>, <<>>, T_Dairy),
    LineOf(T_A, T_eggs, <<"3">>, <<>>, <<>>),
    LineOf(T_B, T_eggs, <<"2">>, <<"E", "a", "c", "h", ".">>, NULL),
    LineOf(T_B, T_eggs, <<"1">>, <<"p", "c", "s">>, <<" ">>),
    LineOf(T_A, T_flour, <<"1">>, T_pinch, T_Baking),
    LineOf(T_B, T_flour, <<"1">>, T_knob, T_Baking),
    LineOf(T_A, T_flour, <<"1">>, U_cup, T_7),
    LineOf(T_B, T_apple, <<"1">>, <<"p", "i", "e", "c", "e">>, T_Baking),
    LineOf(T_A, T_flour, <<"1", "0", "0">>, U_g, T_Baking),
    LineOf(T_B, T_flour, <<"2">>, <<>>, T_Baking) }

AddEdge == ProcessLineFrom(EdgeLines, MaxEdge)

NextEdge == AddEdge \/ BuildRows

SpecEdge == Init /\ [][NextEdge]_vars

-----------------------------------------------------------------------------
(* generateGroceryList called again and again on one selection *)

\* most calls of generateGroceryList on one selection
MaxRuns == 2
\* most ingredient lines of the selected recipes
MaxSelected == 2

\* the ingredient lines the selected recipes are put together from
RunLines == {
    LineOf(T_A, T_flour, <<"2">>, <<"c", "u", "p", "s">>, T_Baking),
    LineOf(T_B, <<"F", "l", "o", "u", "r">>, <<"1", "/", "2">>, U_cup, T_Baking),
    LineOf(T_B, T_sugar, <<"2", "0", "0">>, U_g, T_Baking),
    LineOf(T_A, T_flour, <<"1">>, T_knob, T_7),
    LineOf(T_A, T_eggs, <<"3">>, <<>>, <<>>) }

InitRuns ==
    /\ recipes \in UNION {[1..k -> RunLines] : k \in 0..MaxSelected}
    /\ runs = <<>>
    /\ ParseIdle /\ UnitIdle /\ FormatIdle /\ AfterRunIdle
    /\ AggInit

\* aggByAisle with what the call before left in it
LeftAggByAisle == aggByAisle

\* const aggByAisle = {} and const combined = {}: the objects of a call are new
NewAggByAisle == <<>>
NewCombined == <<>>

\* one turn of the loops over selected and recipe.ingredients, in their order
VisitLine ==
    /\ pc = "collect"
    /\ Len(processed) < Len(recipes)
    /\ LET line == recipes[Len(processed) + 1]
       IN /\ processed' = Append(processed, line)
          /\ aggByAisle' = CollectLine(aggByAisle, line.title, line.ing)
          /\ IF normalizeIngredientName(line.ing.name) = <<>>
             THEN UNCHANGED <<qIn, qOut>>
             ELSE /\ qIn' = line.ing.quantity
                  /\ qOut' = <<parseQuantityToNumber(line.ing.quantity)>>
    /\ UNCHANGED <<combined, pc, unitVars, formatVars, runVars, afterRunVars>>

\* the conversion into rows and the return, after the last line
ReturnRows ==
    /\ Len(processed) = Len(recipes)
    /\ BuildRows

\* the next call: its result is kept aside, the new call has new objects
CallAgain ==
    /\ pc = "done"
    /\ Len(runs) < MaxRuns - 1
    /\ runs' = Append(runs, combined)
    /\ processed' = <<>>
    /\ aggByAisle' = NewAggByAisle
    /\ combined' = NewCombined
    /\ pc' = "collect"
    /\ UNCHANGED <<recipes, parseVars, unitVars, formatVars, afterRunVars>>

NextRuns == VisitLine \/ ReturnRows \/ CallAgain

SpecRuns == InitRuns /\ [][NextRuns]_vars

-----------------------------------------------------------------------------
(* normalizeIngredientName applied to one argument *)

\* longest argument, counted in pieces
MaxNameParts == 3

\* the pieces the arguments are put together from
NamePieces == {<<"f", "l">>, <<"F", "l">>, <<"x">>, <<"-">>, <<" ">>, <<"\t">>}

NameTexts == {Flatten(ps) : ps \in UNION {[1..k -> NamePieces] : k \in 0..MaxNameParts}}

InitName ==
    /\ nIn \in NameTexts \cup {NULL}
    /\ nOut = <<>>
    /\ ParseIdle /\ UnitIdle /\ FormatIdle /\ RunIdle /\ AfterNameIdle
    /\ AggInit

NormalizeName ==
    /\ nOut = <<>>
    /\ nOut' = <<normalizeIngredientName(nIn)>>
    /\ UNCHANGED <<nIn, parseVars, unitVars, formatVars, aggVars, runVars, afterNameVars>>

NextName == NormalizeName

SpecName == InitName /\ [][NextName]_vars

-----------------------------------------------------------------------------
(* The grocery list of recipes whose names and units hold the separator of the keys *)

\* most ingredient lines visited in one run over these recipes
MaxKeys == 3

T_salt == <<"s", "a", "l", "t">>
T_Pantry == <<"P", "a", "n", "t", "r", "y">>
T_saltUnknown == <<"s", "a", "l", "t", "|", "u", "n", "k", "n", "o", "w", "n">>

\* ingredient lines with '|', 'unknown', 'count' and 'unitless' in names and units
KeyLines == {
    LineOf(T_A, T_saltUnknown, <<"1">>, <<>>, T_Pantry),
    LineOf(T_B, T_salt, <<"2">>, <<"c", "o", "u", "n", "t">>, T_Pantry),
    LineOf(T_A, T_salt, <<"1">>, K_unitless, T_Pantry),
    LineOf(T_B, T_salt, <<"3">>, <<>>, T_Pantry),
    LineOf(T_A, T_saltUnknown, <<"1">>, <<"x">>, T_Pantry),
    LineOf(T_B, T_salt, <<"1">>, U_cup, T_Pantry) }

AddKeyLine == ProcessLineFrom(KeyLines, MaxKeys)

NextKeys == AddKeyLine \/ BuildRows

SpecKeys == Init /\ [][NextKeys]_vars

\* ---------------------------------------------------------------------
\* generateGroceryList on lines of one volume bucket and one weight bucket
\* written with several aliases and with quantities that need rounding
\* ---------------------------------------------------------------------
MaxSum == 3

T_butter == <<"b", "u", "t", "t", "e", "r">>

SumLines == {
    LineOf(T_A, T_flour, <<"1", "/", "3">>, U_cup, T_Baking),
    LineOf(T_B, T_flour, <<"2">>, <<"T", "b", "s", "p", ".">>, T_Baking),
    LineOf(T_A, T_flour, <<"1", " ", "1", "/", "2">>,
           <<"t", "e", "a", "s", "p", "o", "o", "n", "s">>, T_Baking),
    LineOf(T_B, T_flour, <<"2", "5", "0">>, U_ml, T_Baking),
    LineOf(T_A, T_butter, <<"1", "0", "0">>, U_g, T_Dairy),
    LineOf(T_B, T_butter, <<"1", "/", "3">>, <<"o", "u", "n", "c", "e">>, T_Dairy),
    LineOf(T_A, T_butter, <<"1">>, <<"p", "o", "u", "n", "d", "s">>, T_Dairy),
    LineOf(T_B, T_butter, <<"0", ".", "2", "5">>, U_kg, T_Dairy) }

AddSumLine == ProcessLineFrom(SumLines, MaxSum)

NextSum == AddSumLine \/ BuildRows

SpecSum == Init /\ [][NextSum]_vars

\* ---------------------------------------------------------------------
\* generateGroceryList on lines whose order matters to what is kept of a
\* bucket: names written with a hyphen, a space or capitals, unknown units,
\* several aisles
\* ---------------------------------------------------------------------
MaxOrder == 3

T_brownSugar == <<"b", "r", "o", "w", "n", " ", "s", "u", "g", "a", "r">>

OrderLines == {
    LineOf(T_A, <<"B", "r", "o", "w", "n", "-", "S", "u", "g", "a", "r">>, <<"1">>, U_cup,
           T_Baking),
    LineOf(T_B, T_brownSugar, <<"2">>, U_tbsp, T_Baking),
    LineOf(T_A, T_flour, <<"2", "0", "0">>, U_g, T_Baking),
    LineOf(T_B, <<"F", "l", "o", "u", "r">>, <<"1">>, U_lb, T_Baking),
    LineOf(T_A, T_eggs, <<"2">>, <<>>, T_Dairy),
    LineOf(T_B, T_eggs, <<"1">>, T_knob, T_Dairy),
    LineOf(T_A, T_eggs, <<"1">>, T_pinch, T_Dairy) }

AddOrderLine == ProcessLineFrom(OrderLines, MaxOrder)

NextOrder == AddOrderLine \/ BuildRows

SpecOrder == Init /\ [][NextOrder]_vars



-----------------------------------------------------------------------------
(* RecipesPage: the recipes shown, the selection, and the requests that change them *)

\* most requests of the page that wait for their response at one time
MaxRequests == 2

\* the recipes the server holds at first, and the search texts the user types
RecipeIds == {1, 2}
SearchTexts == {<<>>, <<"a">>}

\* whether GET /?search= returns a recipe: every recipe for no search text, else the
\* recipes whose title or ingredients hold the text (here recipe 1 only)
Matches(id, search) == search = <<>> \/ id = 1

\* the request of doFetch for a search text, not answered yet
FetchOf(search) == [search |-> search, data |-> <<>>, aborted |-> FALSE]

\* controller.abort() of the effect before: the requests under way are aborted
Aborted(fetches) == {[f EXCEPT !.aborted = TRUE] : f \in fetches}

\* the page after mount: useState([]) and the first run of the fetch effect
InitPage ==
    /\ page = [stage |-> "open", recipes |-> {}, selectedRecipes |-> <<>>,
               search |-> <<>>, fetches |-> {FetchOf(<<>>)}, deletes |-> {},
               deleted |-> {}]
    /\ stored = RecipeIds
    /\ ParseIdle /\ UnitIdle /\ FormatIdle /\ RunIdle /\ NameIdle
    /\ UploadIdle /\ SaveIdle
    /\ AggInit

pageFrame == <<parseVars, unitVars, formatVars, aggVars, runVars, nameVars, uploadVars,
               saveVars>>

\* prev.filter(rid => rid # id)
Without(selected, id) == SelectSeq(selected, LAMBDA rid : rid # id)

\* prev.includes(id) ? prev.filter(rid => rid # id) : [...prev, id]
Toggled(selected, id) ==
    IF \E i \in DOMAIN selected : selected[i] = id THEN Without(selected, id)
    ELSE Append(selected, id)

\* Toggled without the test prev.includes(id)

\* toggleSelect on the card of a recipe that is shown
ToggleSelect ==
    /\ Len(page.selectedRecipes) <= Cardinality(RecipeIds)
    /\ \E id \in page.recipes :
          page' = [page EXCEPT !.selectedRecipes = Toggled(@, id)]
    /\ UNCHANGED <<stored, pageFrame>>

\* setSearch: the effect is cleaned up (abort) and run again (doFetch)
ChangeSearch ==
    /\ Cardinality(page.fetches) + Cardinality(page.deletes) < MaxRequests
    /\ \E s \in SearchTexts \ {page.search} :
          page' = [page EXCEPT !.search = s,
                               !.fetches = Aborted(@) \cup {FetchOf(s)}]
    /\ UNCHANGED <<stored, pageFrame>>

\* GET /: the server answers a fetch with the recipes it holds that match
AnswerFetch ==
    /\ \E f \in page.fetches :
          /\ f.data = <<>>
          /\ page' = [page EXCEPT !.fetches = (@ \ {f}) \cup
                        {[f EXCEPT !.data = <<{id \in stored : Matches(id, f.search)}>>]}]
    /\ UNCHANGED <<stored, pageFrame>>

\* doFetch after its awaits: setRecipes(data), or nothing after an AbortError
FinishFetch ==
    /\ \E f \in page.fetches :
          /\ f.data # <<>> \/ f.aborted
          /\ page' = [page EXCEPT !.fetches = @ \ {f},
                                  !.recipes = IF f.aborted THEN @ ELSE f.data[1]]
    /\ UNCHANGED <<stored, pageFrame>>

\* handleDelete up to its await: the DELETE request of a recipe that is shown
StartDelete ==
    /\ Cardinality(page.fetches) + Cardinality(page.deletes) < MaxRequests
    /\ \E id \in page.recipes :
          /\ \A d \in page.deletes : d.id # id
          /\ page' = [page EXCEPT !.deletes = @ \cup {[id |-> id, ok |-> <<>>]}]
    /\ UNCHANGED <<stored, pageFrame>>

\* DELETE /:id: 404 when no row is deleted, else the recipe is gone
AnswerDelete ==
    /\ \E d \in page.deletes :
          /\ d.ok = <<>>
          /\ page' = [page EXCEPT !.deletes = (@ \ {d}) \cup
                        {[d EXCEPT !.ok = <<d.id \in stored>>]}]
          /\ stored' = stored \ {d.id}
    /\ UNCHANGED pageFrame

\* handleDelete after its await: the recipe leaves recipes and selectedRecipes when
\* the response is ok
FinishDelete ==
    /\ \E d \in page.deletes :
          /\ d.ok # <<>>
          /\ page' = IF d.ok[1]
                     THEN [page EXCEPT !.deletes = @ \ {d},
                                       !.recipes = @ \ {d.id},
                                       !.selectedRecipes = Without(@, d.id),
                                       !.deleted = @ \cup {d.id}]
                     ELSE [page EXCEPT !.deletes = @ \ {d}]
    /\ UNCHANGED <<stored, pageFrame>>

NextPage ==
    \/ ToggleSelect \/ ChangeSearch \/ AnswerFetch \/ FinishFetch
    \/ StartDelete \/ AnswerDelete \/ FinishDelete

SpecPage == InitPage /\ [][NextPage]_vars

-----------------------------------------------------------------------------
(* Buckets of ingredient lines, as the claims about the grocery list read them *)

\* the unit label of a line of the Unknown family, as written and normalized
WrittenLabel(unit) == IF getUnitInfo(unit).kind = "unknown" THEN unit ELSE <<>>
NormalizedLabel(unit) ==
    IF getUnitInfo(unit).kind = "unknown" THEN normalizeUnitString(unit) ELSE <<>>

\* what the claims need of one ingredient line: whether it has a name (the others
\* are skipped), its family, its (aisle, name, family), the same with the unit label
\* as written and normalized, its quantity as a number and in the base unit
LineFacts(line) ==
    LET ing == line.ing
        unitInfo == getUnitInfo(ing.unit)
        qty == parseQuantityToNumber(ing.quantity)
        bucket == <<normalizeAisle(ing.aisle), normalizeIngredientName(ing.name),
                    unitInfo.kind>>
    IN [counted |-> normalizeIngredientName(ing.name) # <<>>,
        title |-> line.title,
        family |-> unitInfo.kind,
        familyBucket |-> bucket,
        writtenBucket |-> Append(bucket, WrittenLabel(ing.unit)),
        normalizedBucket |-> Append(bucket, NormalizedLabel(ing.unit)),
        canonicalUnit |-> unitInfo.canonicalUnit,
        qty |-> qty,
        base |-> IF unitInfo.kind \in {"volume", "weight"}
                 THEN AScale(qty, unitInfo.toBaseFactor) ELSE AZero]

\* the facts of the first k visited lines
RECURSIVE FactsUpTo(_)
FactsUpTo(k) == IF k = 0 THEN <<>> ELSE Append(FactsUpTo(k - 1), LineFacts(processed[k]))

\* the facts of the visited lines
Lines == FactsUpTo(Len(processed))

\* the visited lines that have a name
Counted(L) == {i \in DOMAIN L : L[i].counted}

\* what the claims need of one row: the bucket it stands for (its unit tells its family)
RowFacts(r) ==
    LET bucket == <<r.aisle, normalizeIngredientName(r.name), getUnitInfo(r.unit).kind>>
    IN [row |-> r,
        family |-> bucket[3],
        familyBucket |-> bucket,
        writtenBucket |-> Append(bucket, WrittenLabel(r.unit)),
        normalizedBucket |-> Append(bucket, NormalizedLabel(r.unit))]

RECURSIVE RowFactsOf(_)
RowFactsOf(rows) ==
    IF rows = <<>> THEN <<>> ELSE <<RowFacts(Head(rows).val)>> \o RowFactsOf(Tail(rows))

RECURSIVE RowFactsUpTo(_)
RowFactsUpTo(a) ==
    IF a = 0 THEN <<>> ELSE RowFactsUpTo(a - 1) \o RowFactsOf(combined[a].val)

\* the facts of the rows of the grocery list
Rows == RowFactsUpTo(Len(combined))

\* the sum of the quantities of the lines S, as numbers
RECURSIVE SumQty(_, _)
SumQty(L, S) ==
    IF S = {} THEN Zero
    ELSE LET i == CHOOSE x \in S : TRUE IN RAdd(L[i].qty, SumQty(L, S \ {i}))

\* the sum of the quantities of the lines S in the base unit of their family
RECURSIVE SumBase(_, _)
SumBase(L, S) ==
    IF S = {} THEN AZero
    ELSE LET i == CHOOSE x \in S : TRUE IN AAdd(L[i].base, SumBase(L, S \ {i}))

CanonicalUnits(L, S) == {L[i].canonicalUnit : i \in S}

\* whether the lines S, all of family f, sum to something other than 0
NonZeroTotal(L, S, f) ==
    IF f = "volume" THEN ATruthy(SumBase(L, S), TspMl)
    ELSE IF f = "weight" THEN ATruthy(SumBase(L, S), OzG)
    ELSE SumQty(L, S) # Zero

\* whether row r shows the sum of the lines S, all of family f
ShowsSum(r, L, S, f) ==
    IF f = "volume"
    THEN LET v == formatVolumeFromMl(SumBase(L, S), CanonicalUnits(L, S))
         IN r.quantity = v.quantity /\ r.unit = v.unit
    ELSE IF f = "weight"
    THEN LET w == formatWeightFromG(SumBase(L, S), CanonicalUnits(L, S))
         IN r.quantity = w.quantity /\ r.unit = w.unit
    ELSE r.quantity = SumQty(L, S)


\* whether the visited lines are exactly these (title, name, quantity, unit, aisle)
Visited(ls) ==
    /\ Len(processed) = Len(ls)
    /\ \A i \in DOMAIN ls :
          processed[i] = [title |-> ls[i][1],
                          ing |-> [name |-> ls[i][2], quantity |-> ls[i][3],
                                   unit |-> ls[i][4], aisle |-> ls[i][5]]]

-----------------------------------------------------------------------------
(* Claims about the grocery list *)

\* C1 as stated: two lines are summed into the same row if and only if their
\* normalized aisles, normalized names and unit families are equal. Every row shows
\* the sum of exactly the lines of its (aisle, name, family), and the lines of an
\* (aisle, name, family) with a total other than 0 have exactly one row.
C1_SameRowIffSameFamily ==
    pc = "done" =>
        LET L == Lines
            R == Rows
        IN /\ \A k \in DOMAIN R :
                 LET S == {i \in Counted(L) : L[i].familyBucket = R[k].familyBucket}
                 IN S # {} /\ ShowsSum(R[k].row, L, S, R[k].family)
           /\ \A i \in Counted(L) :
                 LET S == {j \in Counted(L) : L[j].familyBucket = L[i].familyBucket}
                     rows == {k \in DOMAIN R : R[k].familyBucket = L[i].familyBucket}
                 IN /\ Cardinality(rows) <= 1
                    /\ NonZeroTotal(L, S, L[i].family) => Cardinality(rows) = 1

\* C1 amended: two lines are summed into the same row if and only if their normalized
\* aisles, normalized names and unit families are equal and, for lines of the Unknown
\* family, their unit labels as written are equal too. Every row shows the sum of
\* exactly the lines of its (aisle, name, family, label), and the lines of an
\* (aisle, name, family, label) with a total other than 0 have exactly one row.
C1_SameRowIffSameFamilyAndLabel ==
    pc = "done" =>
        LET L == Lines
            R == Rows
        IN /\ \A k \in DOMAIN R :
                 LET S == {i \in Counted(L) : L[i].writtenBucket = R[k].writtenBucket}
                 IN S # {} /\ ShowsSum(R[k].row, L, S, R[k].family)
           /\ \A i \in Counted(L) :
                 LET S == {j \in Counted(L) : L[j].writtenBucket = L[i].writtenBucket}
                     rows == {k \in DOMAIN R : R[k].writtenBucket = L[i].writtenBucket}
                 IN /\ Cardinality(rows) <= 1
                    /\ NonZeroTotal(L, S, L[i].family) => Cardinality(rows) = 1

\* 'flour' 2 cups in 'Baking' from A and 'Flour' 1/2 cup in 'baking' from B have given
\* the one row 2.5 cup of flour under 'Baking' with sources [A, B]
C1_Witness ==
    /\ pc = "done"
    /\ Visited(<< <<T_A, T_flour, <<"2">>, <<"c", "u", "p", "s">>, T_Baking>>,
                  <<T_B, <<"F", "l", "o", "u", "r">>, <<"1", "/", "2">>, U_cup,
                    <<"b", "a", "k", "i", "n", "g">> >> >>)
    /\ combined = << [key |-> T_Baking,
                      val |-> << [key |-> T_flour \o K_volume,
                                  val |-> [quantity |-> Rat(5, 2), unit |-> U_cup,
                                           aisle |-> T_Baking, name |-> T_flour,
                                           sources |-> <<T_A, T_B>>]] >>] >>

\* the visited lines of one aisle, name and family
LinesOf(L, aisle, nameKey, f) ==
    {i \in Counted(L) : L[i].familyBucket = <<aisle, nameKey, f>>}

\* the sum of the totals of a Map
RECURSIVE SumVals(_)
SumVals(m) == IF m = <<>> THEN Zero ELSE RAdd(Head(m).val, SumVals(Tail(m)))

\* C2: for every aisle and ingredient name, quantities of different families are
\* never added into the same total: each of the four totals is the sum of the lines
\* of its own family, and in the list the Volume lines and the Weight lines of one
\* aisle and name have a row each, of a Volume unit and of a Weight unit.
C2_FamilyIsolation ==
    LET L == Lines
        R == Rows
    IN /\ \A a \in DOMAIN aggByAisle : \A k \in DOMAIN aggByAisle[a].val :
             LET aisle == aggByAisle[a].key
                 nameKey == aggByAisle[a].val[k].key
                 agg == aggByAisle[a].val[k].val
             IN /\ agg.countTotal = SumQty(L, LinesOf(L, aisle, nameKey, "count"))
                /\ agg.volumeMlTotal = SumBase(L, LinesOf(L, aisle, nameKey, "volume"))
                /\ agg.weightGTotal = SumBase(L, LinesOf(L, aisle, nameKey, "weight"))
                /\ SumVals(agg.unknownTotals)
                       = SumQty(L, LinesOf(L, aisle, nameKey, "unknown"))
       /\ pc = "done" =>
             \A i \in Counted(L) : L[i].family \in {"volume", "weight"} =>
                 LET S == {j \in Counted(L) : L[j].familyBucket = L[i].familyBucket}
                     rows == {k \in DOMAIN R : R[k].familyBucket = L[i].familyBucket}
                 IN IF NonZeroTotal(L, S, L[i].family)
                    THEN /\ Cardinality(rows) = 1
                         /\ \A k \in rows : ShowsSum(R[k].row, L, S, L[i].family)
                    ELSE rows = {}

\* sugar once as 1 cup and once as 200 g has given two rows under the same aisle and
\* name, one in cups and one in ounces
C2_Witness ==
    /\ pc = "done"
    /\ Visited(<< <<T_A, T_sugar, <<"1">>, U_cup, T_Baking>>,
                  <<T_B, T_sugar, <<"2", "0", "0">>, U_g, T_Baking>> >>)
    /\ Len(combined) = 1 /\ Len(combined[1].val) = 2
    /\ \E k \in DOMAIN combined[1].val :
          LET r == combined[1].val[k].val
          IN r.unit = U_cup /\ r.quantity = One /\ r.aisle = T_Baking /\ r.name = T_sugar
    /\ \E k \in DOMAIN combined[1].val :
          LET r == combined[1].val[k].val
          IN r.unit = U_oz /\ r.quantity = Rat(141, 20) /\ r.aisle = T_Baking
             /\ r.name = T_sugar

\* whether the texts xs are in lexicographic order without repetition
StrictlySorted(xs) == \A i \in 1..(Len(xs) - 1) : localeCompare(xs[i], xs[i + 1]) < 0

\* C3: each row's sources are exactly the titles of the recipes that contributed at
\* least one line to the row's bucket (aisle, name, family, unit label), deduplicated
\* and sorted; a recipe that only contributed to another family of the same
\* ingredient is not listed on the row.
C3_SourcesOfBucket ==
    pc = "done" =>
        LET L == Lines
            R == Rows
        IN \A k \in DOMAIN R :
               LET S == {i \in Counted(L) : L[i].writtenBucket = R[k].writtenBucket}
               IN /\ Range(R[k].row.sources) = {L[i].title : i \in S}
                  /\ StrictlySorted(R[k].row.sources)

\* C4: a row is emitted for a bucket if and only if the bucket's total is not 0, for
\* every family including Unknown: a bucket whose lines all have unparseable or zero
\* quantity emits no row.
C4_RowIffNonZero ==
    pc = "done" =>
        LET L == Lines
            R == Rows
        IN \A i \in Counted(L) :
               LET S == {j \in Counted(L) : L[j].writtenBucket = L[i].writtenBucket}
               IN (\E k \in DOMAIN R : R[k].writtenBucket = L[i].writtenBucket)
                      <=> NonZeroTotal(L, S, L[i].family)

\* C5: Unknown-unit lines of the same aisle and ingredient are summed into one row if
\* and only if their normalized unit labels are equal: every row of an unknown unit
\* shows the sum of exactly the lines of its aisle, name and normalized label, these
\* lines have no second row, and no row of another family counts an Unknown line.
C5_UnknownByNormalizedLabel ==
    pc = "done" =>
        LET L == Lines
            R == Rows
        IN /\ \A k \in DOMAIN R :
                 LET S == {i \in Counted(L) : L[i].normalizedBucket = R[k].normalizedBucket}
                 IN S # {} /\ ShowsSum(R[k].row, L, S, R[k].family)
           /\ \A i \in Counted(L) : L[i].family = "unknown" =>
                 Cardinality({k \in DOMAIN R :
                                 R[k].normalizedBucket = L[i].normalizedBucket}) = 1

-----------------------------------------------------------------------------
(* Claims about the unit classifier *)

UnitCalled == uOut # <<>>

\* other ways to write a unit
Respellings(raw) == {ToLowerCase(raw), UpperCased(raw), <<" ">> \o raw \o <<" ">>}

T_tablespoon == <<"t", "a", "b", "l", "e", "s", "p", "o", "o", "n">>

\* C11: getUnitInfo depends only on the normalized unit string: two raw unit strings
\* that are equal after normalization yield the same UnitInfo, for known and for
\* unknown units; 'tbsp', 'tablespoons' and 'tablespoon' in any spelling are of the
\* Volume family with canonical 'tbsp', and for an unmatched string both the
\* canonical and the display unit are the normalized string.
C11_NormalizedOnly ==
    (UnitCalled /\ uIn # NULL) =>
        /\ \A r \in Respellings(uIn) :
              normalizeUnitString(r) = normalizeUnitString(uIn) => getUnitInfo(r) = uOut[1]
        /\ normalizeUnitString(uIn) \in {U_tbsp, T_tablespoon, T_tablespoon \o <<"s">>}
              => uOut[1].kind = "volume" /\ uOut[1].canonicalUnit = U_tbsp
        /\ uOut[1].kind = "unknown"
              => /\ uOut[1].canonicalUnit = normalizeUnitString(uIn)
                 /\ uOut[1].prettyUnit = normalizeUnitString(uIn)

\* whether a factor is a number above 0
PositiveFactor(f, U) ==
    f # UndefinedFactor /\ f # NoFactor /\ CompareScaled(f.u, RSub(Zero, f.r), U) > 0

\* C12: every UnitInfo returned by getUnitInfo satisfies the family invariant: Volume
\* has baseUnit 'ml' and a factor above 0, Weight has baseUnit 'g' and a factor above
\* 0, Count has baseUnit 'each' and factor 1, Unknown has no base unit and no factor
\* and its canonicalUnit is the normalized raw unit string.
C12_FamilyInvariant ==
    UnitCalled =>
        /\ uOut[1].kind \in {"count", "volume", "weight", "unknown"}
        /\ uOut[1].kind = "volume"
              => uOut[1].baseUnit = "ml" /\ PositiveFactor(uOut[1].toBaseFactor, TspMl)
        /\ uOut[1].kind = "weight"
              => uOut[1].baseUnit = "g" /\ PositiveFactor(uOut[1].toBaseFactor, OzG)
        /\ uOut[1].kind = "count"
              => uOut[1].baseUnit = "each" /\ uOut[1].toBaseFactor = CountFactor
        /\ uOut[1].kind = "unknown"
              => /\ uOut[1].baseUnit = "null" /\ uOut[1].toBaseFactor = NoFactor
                 /\ uOut[1].canonicalUnit = normalizeUnitString(uIn)

\* the conversion factors required of the canonical units, in ml and in g:
\* 4.92892159375, 14.78676478125, 236.5882365, 1, 1000, 29.5735295625, 473.176473,
\* 946.352946, 3785.411784; 1, 1000, 28.349523125, 453.59237
RequiredFactors == <<
    [unit |-> <<"t", "s", "p">>, value |-> Rat(157725491, 32000000)],
    [unit |-> <<"t", "b", "s", "p">>, value |-> Rat(473176473, 32000000)],
    [unit |-> <<"c", "u", "p">>, value |-> Rat(473176473, 2000000)],
    [unit |-> <<"m", "l">>, value |-> Int2Rat(1)],
    [unit |-> <<"l">>, value |-> Int2Rat(1000)],
    [unit |-> <<"f", "l", " ", "o", "z">>, value |-> Rat(473176473, 16000000)],
    [unit |-> <<"p", "t">>, value |-> Rat(473176473, 1000000)],
    [unit |-> <<"q", "t">>, value |-> Rat(473176473, 500000)],
    [unit |-> <<"g", "a", "l">>, value |-> Rat(473176473, 125000)],
    [unit |-> <<"g">>, value |-> Int2Rat(1)],
    [unit |-> <<"k", "g">>, value |-> Int2Rat(1000)],
    [unit |-> <<"o", "z">>, value |-> Rat(45359237, 1600000)],
    [unit |-> <<"l", "b">>, value |-> Rat(45359237, 100000)] >>

\* whether a factor or divisor is the number required of a unit
HasRequiredValue(f, unit, U) ==
    /\ f # UndefinedFactor /\ f # NoFactor
    /\ \E i \in DOMAIN RequiredFactors :
          /\ RequiredFactors[i].unit = unit
          /\ CompareScaled(f.u, RSub(RequiredFactors[i].value, f.r), U) = 0

\* C13: every alias of a canonical unit carries exactly the conversion factor
\* required of that unit, and the divisors formatVolumeFromMl and formatWeightFromG
\* use for a display unit equal the classifier's factor of that unit.
C13_ExactFactors ==
    /\ \A i \in DOMAIN volumeAliases :
          HasRequiredValue(volumeAliases[i].toMl, volumeAliases[i].canonical, TspMl)
    /\ \A i \in DOMAIN weightAliases :
          HasRequiredValue(weightAliases[i].toG, weightAliases[i].canonical, OzG)
    /\ (UnitCalled /\ uOut[1].kind = "volume" /\ uOut[1].canonicalUnit # Undefined)
          => /\ HasRequiredValue(uOut[1].toBaseFactor, uOut[1].canonicalUnit, TspMl)
             /\ uOut[1].canonicalUnit \in {U_l, U_ml, U_cup, U_tbsp, U_tsp}
                   => /\ VolumeDivisor(uOut[1].canonicalUnit) = uOut[1].toBaseFactor
                      /\ HasRequiredValue(VolumeDivisor(uOut[1].canonicalUnit),
                                          uOut[1].canonicalUnit, TspMl)
    /\ (UnitCalled /\ uOut[1].kind = "weight")
          => /\ HasRequiredValue(uOut[1].toBaseFactor, uOut[1].canonicalUnit, OzG)
             /\ WeightDivisor(uOut[1].canonicalUnit) = uOut[1].toBaseFactor
             /\ HasRequiredValue(WeightDivisor(uOut[1].canonicalUnit),
                                 uOut[1].canonicalUnit, OzG)

\* ' Pounds.' has been classified: Weight, canonical 'lb', factor 453.59237
C13_Witness ==
    /\ UnitCalled
    /\ uIn = <<" ", "P", "o", "u", "n", "d", "s", ".">>
    /\ uOut[1].kind = "weight" /\ uOut[1].canonicalUnit = U_lb
    /\ uOut[1].toBaseFactor = PoundFactor
    /\ WeightDivisor(U_lb) = PoundFactor

-----------------------------------------------------------------------------
(* The grocery list of recipes that measure one ingredient in cups *)

\* most ingredient lines visited in one run
MaxCups == 5

T_cupLine == [name |-> <<"f", "l", "o", "u", "r">>, quantity |-> <<"1">>,
              unit |-> <<"c", "u", "p">>, aisle |-> <<"B", "a", "k", "i", "n", "g">>]

CupLines == {
    [title |-> <<"A">>, ing |-> T_cupLine],
    [title |-> <<"B">>, ing |-> T_cupLine],
    [title |-> <<"B">>, ing |-> [T_cupLine EXCEPT !.unit = <<"t", "b", "s", "p">>]] }

AddCup == ProcessLineFrom(CupLines, MaxCups)

NextCups == AddCup \/ BuildRows

SpecCups == Init /\ [][NextCups]_vars

\* the visited lines are N >= 1 lines of '1 cup' of flour in 'Baking' and nothing else
OnlyCups == processed # <<>> /\ \A i \in DOMAIN processed : processed[i].ing = T_cupLine

\* the list is the one row of N cups of flour
RowOfCups(N) ==
    /\ Len(combined) = 1 /\ Len(combined[1].val) = 1
    /\ combined[1].val[1].val.quantity = Int2Rat(N)
    /\ combined[1].val[1].val.unit = U_cup

\* C14 as stated: for every N >= 1, N lines of '1 cup' of the same ingredient and
\* aisle and no other volume lines yield one Volume row of quantity exactly N and
\* unit 'cup'.
C14_CupsRoundTrip == (pc = "done" /\ OnlyCups) => RowOfCups(Len(processed))

\* C14 amended: the same for every N >= 1 whose N cups are less than 1000 ml, that
\* is for N from 1 to 4.
C14_CupsBelowLiterRoundTrip ==
    (pc = "done" /\ OnlyCups
        /\ ~AGeq(AScale(Int2Rat(Len(processed)), CupFactor), Amount(0, 1000), TspMl))
            => RowOfCups(Len(processed))

\* four lines of '1 cup' have given the row 4 cup
C14_Witness ==
    /\ pc = "done" /\ OnlyCups /\ Len(processed) = 4
    /\ ~AGeq(AScale(Int2Rat(Len(processed)), CupFactor), Amount(0, 1000), TspMl)
    /\ RowOfCups(4)

-----------------------------------------------------------------------------
(* The format functions applied to one total *)

\* a total of r ml or g, and a total of u teaspoons or ounces
InBase(n, d) == [u |-> Zero, r |-> Rat(n, d)]
InUnits(n, d) == [u |-> Rat(n, d), r |-> Zero]

\* totals in ml, around the thresholds of the display units
VolumeTotals == {
    InBase(1, 2), InBase(3, 1), InBase(49289, 10000), InBase(492895, 100000),
    InBase(4929, 1000), InBase(10, 1), InBase(147867, 10000), InBase(147868, 10000),
    InBase(14787, 1000), InBase(30, 1), InBase(59147, 1000), InBase(591471, 10000),
    InBase(100, 1), InBase(99999, 100), InBase(1000, 1), InBase(1500, 1),
    InUnits(1, 2), InUnits(1, 1), InUnits(3, 1), InUnits(11, 1), InUnits(12, 1),
    InUnits(48, 1), InUnits(202, 1), InUnits(203, 1),
    AAdd(InUnits(48, 1), InBase(100, 1)) }

\* totals in g, around the thresholds of the display units
WeightTotals == {
    InBase(1, 1), InBase(28, 1), InBase(283495, 10000), InBase(2835, 100),
    InBase(100, 1), InBase(453, 1), InBase(45359, 100), InBase(4536, 10),
    InBase(999, 1), InBase(1000, 1), InBase(2000, 1),
    InUnits(1, 2), InUnits(1, 1), InUnits(15, 1), InUnits(16, 1), InUnits(35, 1),
    InUnits(36, 1), AAdd(InUnits(16, 1), InBase(1, 1)) }

\* the canonical units of the two families
VolumeUnits == {volumeAliases[i].canonical : i \in DOMAIN volumeAliases}
WeightUnits == {weightAliases[i].canonical : i \in DOMAIN weightAliases}

InitFormat ==
    /\ \/ fIn \in [family : {"volume"}, total : VolumeTotals,
                   preferred : SUBSET (VolumeUnits \ {<<"q", "t">>, <<"g", "a", "l">>})]
       \/ fIn \in [family : {"weight"}, total : WeightTotals, preferred : SUBSET WeightUnits]
    /\ fOut = <<>>
    /\ ParseIdle /\ UnitIdle /\ AfterAggIdle
    /\ AggInit

FormatVolume ==
    /\ fOut = <<>> /\ fIn.family = "volume"
    /\ fOut' = <<formatVolumeFromMl(fIn.total, fIn.preferred)>>
    /\ UNCHANGED <<fIn, parseVars, unitVars, aggVars, afterAggVars>>

FormatWeight ==
    /\ fOut = <<>> /\ fIn.family = "weight"
    /\ fOut' = <<formatWeightFromG(fIn.total, fIn.preferred)>>
    /\ UNCHANGED <<fIn, parseVars, unitVars, aggVars, afterAggVars>>

NextFormat == FormatVolume \/ FormatWeight

SpecFormat == InitFormat /\ [][NextFormat]_vars

-----------------------------------------------------------------------------
(* Claims about the display unit *)

Formatted == fOut # <<>>

\* the first rule that matches, of rules [used, atLeast, unit] in their order
RECURSIVE FirstRule(_, _, _, _, _)
FirstRule(rules, total, preferred, U, otherwise) ==
    IF rules = <<>> THEN otherwise
    ELSE IF Head(rules).used \in preferred \/ AGeq(total, Head(rules).atLeast, U)
    THEN Head(rules).unit
    ELSE FirstRule(Tail(rules), total, preferred, U, otherwise)

\* the thresholds as the claim writes them: 1000, 59.147, 14.787 and 4.929 ml
RoundedVolumeRules == <<
    [used |-> U_l, atLeast |-> InBase(1000, 1), unit |-> U_l],
    [used |-> U_cup, atLeast |-> InBase(59147, 1000), unit |-> U_cup],
    [used |-> U_tbsp, atLeast |-> InBase(14787, 1000), unit |-> U_tbsp],
    [used |-> U_tsp, atLeast |-> InBase(4929, 1000), unit |-> U_tsp] >>

\* the thresholds as sizes of units: 1000 ml, a quarter of a cup (59.147059125 ml),
\* a tablespoon (14.78676478125 ml), a teaspoon (4.92892159375 ml)
ExactVolumeRules == <<
    [used |-> U_l, atLeast |-> InBase(1000, 1), unit |-> U_l],
    [used |-> U_cup, atLeast |-> AScale(Rat(1, 4), getUnitInfo(U_cup).toBaseFactor),
     unit |-> U_cup],
    [used |-> U_tbsp, atLeast |-> getUnitInfo(U_tbsp).toBaseFactor, unit |-> U_tbsp],
    [used |-> U_tsp, atLeast |-> getUnitInfo(U_tsp).toBaseFactor, unit |-> U_tsp] >>

\* C15 as stated: the Volume display unit is chosen by the first matching rule of:
\* 'l' if l was used or the total is at least 1000 ml; 'cup' if cup was used or at
\* least 59.147 ml; 'tbsp' if tbsp was used or at least 14.787 ml; 'tsp' if tsp was
\* used or at least 4.929 ml; 'ml' if ml was used; else 'tsp'.
C15_VolumeCascadeRounded ==
    (Formatted /\ fIn.family = "volume") =>
        fOut[1].unit = FirstRule(RoundedVolumeRules, fIn.total, fIn.preferred, TspMl,
                                 IF U_ml \in fIn.preferred THEN U_ml ELSE U_tsp)

\* C15 amended: the same cascade with the thresholds a quarter of a cup
\* (59.147059125 ml), one tablespoon (14.78676478125 ml) and one teaspoon
\* (4.92892159375 ml).
C15_VolumeCascadeExact ==
    (Formatted /\ fIn.family = "volume") =>
        fOut[1].unit = FirstRule(ExactVolumeRules, fIn.total, fIn.preferred, TspMl,
                                 IF U_ml \in fIn.preferred THEN U_ml ELSE U_tsp)

\* 59.147 ml from lines in ml is below a quarter of a cup and shown in tbsp
C15_Witness ==
    /\ Formatted /\ fIn.family = "volume"
    /\ fIn.total = InBase(59147, 1000) /\ fIn.preferred = {U_ml}
    /\ fOut[1].unit = U_tbsp /\ fOut[1].quantity = Int2Rat(4)

\* the thresholds of the weight cascade: 1000 g, a pound (453.59237 g), an ounce
\* (28.349523125 g)
WeightRules == <<
    [used |-> U_kg, atLeast |-> InBase(1000, 1), unit |-> U_kg],
    [used |-> U_lb, atLeast |-> getUnitInfo(U_lb).toBaseFactor, unit |-> U_lb],
    [used |-> U_oz, atLeast |-> getUnitInfo(U_oz).toBaseFactor, unit |-> U_oz] >>

\* C16: the Weight display unit is chosen by the first matching rule of: 'kg' if kg
\* was used or the total is at least 1000 g; 'lb' if lb was used or at least
\* 453.59237 g; 'oz' if oz was used or at least 28.349523125 g; else 'g'.  A bucket
\* whose lines all use grams is shown in g only when its total is below
\* 28.349523125 g.
C16_WeightCascade ==
    (Formatted /\ fIn.family = "weight") =>
        /\ fOut[1].unit = FirstRule(WeightRules, fIn.total, fIn.preferred, OzG, U_g)
        /\ fIn.preferred = {U_g}
              => (fOut[1].unit = U_g <=> ~AGeq(fIn.total, InUnits(1, 1), OzG))

\* 28.35 g from lines in grams is more than an ounce and shown as 1 oz
C16_Witness ==
    /\ Formatted /\ fIn.family = "weight"
    /\ fIn.total = InBase(2835, 100) /\ fIn.preferred = {U_g}
    /\ fOut[1].unit = U_oz /\ fOut[1].quantity = Int2Rat(1)

-----------------------------------------------------------------------------
(* Claims about nameless lines, blank aisles, counts and the order of the rows *)

\* whether a name is empty after normalization
Nameless(name) == normalizeIngredientName(name) = <<>>

\* the titles in the source sets of all buckets
RECURSIVE SourcesOfNames(_)
SourcesOfNames(byName) ==
    IF byName = <<>> THEN {}
    ELSE {Head(byName).val.sources[i] : i \in DOMAIN Head(byName).val.sources}
            \cup SourcesOfNames(Tail(byName))

RECURSIVE AllSources(_)
AllSources(byAisle) ==
    IF byAisle = <<>> THEN {}
    ELSE SourcesOfNames(Head(byAisle).val) \cup AllSources(Tail(byAisle))

\* C17: a line whose ingredient name is empty after normalization (an empty or
\* whitespace-only name) is a complete no-op: the turn of the loop that visits it
\* creates no bucket and no aisle entry, adds nothing to any total and does not add
\* the title of its recipe to any source set; the totals stay as they were.
C17_NamelessLineNoOp ==
    [][(/\ Len(processed') = Len(processed) + 1
        /\ Nameless(processed'[Len(processed')].ing.name))
          => /\ aggByAisle' = aggByAisle
             /\ AllSources(aggByAisle') = AllSources(aggByAisle)
             /\ combined' = combined]_vars

\* after flour from A, the line of B with the name '  ' under 'Dairy' has left no
\* aisle 'Dairy' and no source B: the list is the one row of flour from A
C17_Witness ==
    /\ pc = "done"
    /\ Visited(<< <<T_A, T_flour, <<"1">>, U_cup, T_7>>,
                  <<T_B, T_blank, <<"2">>, <<>>, T_Dairy>> >>)
    /\ Len(combined) = 1 /\ combined[1].key = T_7
    /\ Len(combined[1].val) = 1
    /\ combined[1].val[1].val.sources = <<T_A>>
    /\ AllSources(aggByAisle) = {T_A}

\* whether an aisle is empty: missing, the empty string, or only white space
BlankAisle(aisle) == aisle = NULL \/ Trim(aisle) = <<>>

C19_CountRows ==
    /\ \A a \in countAliases \cup {<<>>, NULL} : getUnitInfo(a).kind = "count"
    /\ pc = "done" =>
          LET L == Lines
              R == Rows
          IN \A i \in Counted(L) :
                L[i].family = "count" =>
                   LET S == {j \in Counted(L) : L[j].familyBucket = L[i].familyBucket}
                       rows == {k \in DOMAIN R : R[k].familyBucket = L[i].familyBucket}
                   IN /\ MapGet(MapGet(aggByAisle, L[i].familyBucket[1]),
                                L[i].familyBucket[2]).countTotal = SumQty(L, S)
                      /\ SumQty(L, S) # Zero =>
                            /\ Cardinality(rows) = 1
                            /\ \A k \in rows : /\ R[k].row.unit = <<>>
                                               /\ R[k].row.quantity = SumQty(L, S)
    /\ (pc = "done" /\ Visited(<< <<T_A, T_eggs, <<"3">>, <<>>, <<>> >> >>))
          => combined = << [key |-> T_Other,
                            val |-> << [key |-> T_eggs \o K_count,
                                        val |-> [quantity |-> Int2Rat(3), unit |-> <<>>,
                                                 aisle |-> T_Other, name |-> T_eggs,
                                                 sources |-> <<T_A>>]] >>] >>

\* eggs 3 with no unit and no aisle from A and eggs 2 'Each.' with the aisle missing
\* from B have given the one row 5 eggs under 'Other'
C19_Witness ==
    /\ pc = "done"
    /\ Visited(<< <<T_A, T_eggs, <<"3">>, <<>>, <<>> >>,
                  <<T_B, T_eggs, <<"2">>, <<"E", "a", "c", "h", ".">>, NULL>> >>)
    /\ Len(combined) = 1 /\ combined[1].key = T_Other
    /\ Len(combined[1].val) = 1
    /\ combined[1].val[1].val.quantity = Int2Rat(5)
    /\ combined[1].val[1].val.unit = <<>>

\* the different elements of a tuple, in the order they first appear
RECURSIVE FirstSeen(_)
FirstSeen(xs) ==
    IF xs = <<>> THEN <<>>
    ELSE LET front == FirstSeen(SubSeq(xs, 1, Len(xs) - 1))
         IN SetAdd(front, xs[Len(xs)])

\* the aisles of the visited lines that have a name, in the order visited
RECURSIVE AislesVisited(_)
AislesVisited(k) ==
    IF k = 0 THEN <<>>
    ELSE IF Nameless(processed[k].ing.name) THEN AislesVisited(k - 1)
    ELSE Append(AislesVisited(k - 1), normalizeAisle(processed[k].ing.aisle))

\* the place of a family among the rows of one ingredient
FamilyRank(family) ==
    IF family = "count" THEN 1 ELSE IF family = "volume" THEN 2
    ELSE IF family = "weight" THEN 3 ELSE 4

\* the first visited line of the bucket of a row
FirstLineOf(L, row) ==
    LET S == {i \in Counted(L) : L[i].writtenBucket = row.writtenBucket}
    IN IF S = {} THEN 0 ELSE CHOOSE i \in S : \A j \in S : i <= j

\* whether row r1 is to come before row r2 of the same aisle
RowBefore(L, r1, r2) ==
    LET c == localeCompare(r1.familyBucket[2], r2.familyBucket[2])
    IN \/ c < 0
       \/ /\ c = 0
          /\ \/ FamilyRank(r1.family) < FamilyRank(r2.family)
             \/ /\ r1.family = "unknown" /\ r2.family = "unknown"
                /\ FirstLineOf(L, r1) < FirstLineOf(L, r2)

\* whether the rows of one aisle are in order
RowsInOrder(L, rows) ==
    \A i, j \in DOMAIN rows :
        i < j => RowBefore(L, RowFacts(rows[i].val), RowFacts(rows[j].val))

\* C20: aisles appear in the order in which their first bucket was created; within
\* an aisle the rows are ordered by normalized ingredient name, and for one name the
\* rows appear in the order count, volume, weight, then the unknown rows in the order
\* their unit labels were first seen.
C20_OutputOrder ==
    pc = "done" =>
        /\ [a \in DOMAIN combined |-> combined[a].key]
              = FirstSeen(AislesVisited(Len(processed)))
        /\ LET L == Lines
           IN \A a \in DOMAIN combined : RowsInOrder(L, combined[a].val)

\* C20 without the order of the aisles: the rows of every aisle are in order
C20_RowsOrdered ==
    pc = "done" =>
        LET L == Lines
        IN \A a \in DOMAIN combined : RowsInOrder(L, combined[a].val)

-----------------------------------------------------------------------------
(* Numerals, as the claims about the parser read them *)

IsIntegerNumeral(t) == t # <<>> /\ \A i \in 1..Len(t) : IsDigit(t[i])

IsDecimalNumeral(t) ==
    \E k \in 2..(Len(t) - 1) :
        /\ t[k] = "."
        /\ IsIntegerNumeral(SubSeq(t, 1, k - 1))
        /\ IsIntegerNumeral(From(t, k + 1))

IsFractionNumeral(t) ==
    \E k \in 2..(Len(t) - 1) :
        /\ t[k] = "/"
        /\ IsIntegerNumeral(SubSeq(t, 1, k - 1))
        /\ IsIntegerNumeral(From(t, k + 1))
        /\ DigitsToNat(From(t, k + 1)) # 0

IsNumeral(t) == IsIntegerNumeral(t) \/ IsDecimalNumeral(t) \/ IsFractionNumeral(t)

NumeralValue(t) ==
    IF IsIntegerNumeral(t) THEN Int2Rat(DigitsToNat(t))
    ELSE LET k == CHOOSE i \in 1..Len(t) : t[i] \in {".", "/"}
             a == SubSeq(t, 1, k - 1)
             b == From(t, k + 1)
         IN IF t[k] = "/" THEN Rat(DigitsToNat(a), DigitsToNat(b))
            ELSE Rat(DigitsToNat(a \o b), Pow10(Len(b)))

\* the words of a text: its longest runs of characters other than white space
RECURSIVE SplitWords(_)
SplitWords(s) ==
    LET t == TrimStart(s)
        sp == {i \in 1..Len(t) : IsSpace(t[i])}
        e == IF sp = {} THEN Len(t) + 1 ELSE CHOOSE i \in sp : \A j \in sp : i <= j
    IN IF t = <<>> THEN <<>> ELSE <<SubSeq(t, 1, e - 1)>> \o SplitWords(From(t, e))

RECURSIVE SumOfNumerals(_)
SumOfNumerals(ws) ==
    IF ws = <<>> THEN Zero ELSE RAdd(NumeralValue(Head(ws)), SumOfNumerals(Tail(ws)))

IsVulgar(c) == \E k \in DOMAIN UNICODE_FRACTIONS : UNICODE_FRACTIONS[k].u = c

AsciiOf(c) == UNICODE_FRACTIONS[CHOOSE k \in DOMAIN UNICODE_FRACTIONS : UNICODE_FRACTIONS[k].u = c].ascii

\* the number a vulgar fraction character stands for
VulgarValue(c) ==
    CASE c = "{1/4}" -> Rat(1, 4) [] c = "{1/2}" -> Rat(1, 2) [] c = "{3/4}" -> Rat(3, 4)
      [] c = "{1/7}" -> Rat(1, 7) [] c = "{1/9}" -> Rat(1, 9) [] c = "{1/10}" -> Rat(1, 10)
      [] c = "{1/3}" -> Rat(1, 3) [] c = "{2/3}" -> Rat(2, 3) [] c = "{1/5}" -> Rat(1, 5)
      [] c = "{2/5}" -> Rat(2, 5) [] c = "{3/5}" -> Rat(3, 5) [] c = "{4/5}" -> Rat(4, 5)
      [] c = "{1/6}" -> Rat(1, 6) [] c = "{5/6}" -> Rat(5, 6) [] c = "{1/8}" -> Rat(1, 8)
      [] c = "{3/8}" -> Rat(3, 8) [] c = "{5/8}" -> Rat(5, 8) [] c = "{7/8}" -> Rat(7, 8)

ReplaceAt(s, p, r) == SubSeq(s, 1, p - 1) \o r \o From(s, p + 1)

Called == qOut # <<>>

-----------------------------------------------------------------------------
(* C6: parseQuantityToNumber returns a number for every argument (null, empty,
   white space only, text without digits, any other text); the number is never
   NaN and never negative, and it is 0 when the argument holds no digit and no
   vulgar fraction. *)

NonNumeric(s) == s = NULL \/ \A i \in 1..Len(s) : ~IsDigit(s[i]) /\ ~IsVulgar(s[i])

C7_SumOfTokens ==
    (Called /\ qIn # NULL /\ \A i \in DOMAIN SplitWords(qIn) : IsNumeral(SplitWords(qIn)[i]))
        => qOut[1] = SumOfNumerals(SplitWords(qIn))

\* '2 1/2' parsed to 2.5
C7_Witness == Called /\ qIn = <<"2", " ", "1", "/", "2">> /\ qOut = <<Rat(5, 2)>>

(* C8: for every argument 'A-B' or 'A{ndash}B', white space allowed around the
   dash, where A and B are each an integer, a decimal or a fraction numeral, the
   result is the value of A. *)

IsDash(m) == Trim(m) \in {<<"-">>, <<"{ndash}">>}

C8_RangeFirstBound ==
    (Called /\ qIn # NULL) =>
        \A i \in 1..Len(qIn), j \in 1..Len(qIn) :
            (/\ i <= j
             /\ IsDash(SubSeq(qIn, i, j))
             /\ IsNumeral(SubSeq(qIn, 1, i - 1))
             /\ IsNumeral(From(qIn, j + 1)))
                => qOut[1] = NumeralValue(SubSeq(qIn, 1, i - 1))

(* C9, as claimed: replacing any vulgar fraction of the argument by its ASCII
   n/d form leaves the result as it is, and digits W directly followed by a
   vulgar fraction f give W + value(f), as 'W n/d' does. *)

MixedNumberParses ==
    \A p \in 2..Len(qIn) :
        (p = Len(qIn) /\ IsVulgar(qIn[p]) /\ IsIntegerNumeral(SubSeq(qIn, 1, p - 1)))
            => /\ qOut[1] = RAdd(NumeralValue(SubSeq(qIn, 1, p - 1)), VulgarValue(qIn[p]))
               /\ qOut[1] = parseQuantityToNumber(
                                SubSeq(qIn, 1, p - 1) \o <<" ">> \o AsciiOf(qIn[p]))

C9_AsciiFormEverywhere ==
    (Called /\ qIn # NULL) =>
        /\ \A p \in 1..Len(qIn) :
              IsVulgar(qIn[p])
                  => parseQuantityToNumber(ReplaceAt(qIn, p, AsciiOf(qIn[p]))) = qOut[1]
        /\ MixedNumberParses

(* C9, amended: replacing a vulgar fraction that is not directly preceded by a
   digit or a vulgar fraction and not directly followed by a vulgar fraction by
   its ASCII n/d form leaves the result as it is, and digits W directly followed
   by a vulgar fraction f give W + value(f), as 'W n/d' does. *)

Detached(s, p) ==
    /\ p = 1 \/ (~IsDigit(s[p - 1]) /\ ~IsVulgar(s[p - 1]))
    /\ p = Len(s) \/ ~IsVulgar(s[p + 1])

C9_AsciiFormDetached ==
    (Called /\ qIn # NULL) =>
        /\ \A p \in 1..Len(qIn) :
              (IsVulgar(qIn[p]) /\ Detached(qIn, p))
                  => parseQuantityToNumber(ReplaceAt(qIn, p, AsciiOf(qIn[p]))) = qOut[1]
        /\ MixedNumberParses

\* '1{1/2}' parsed to 1.5
C9_Witness == Called /\ qIn = <<"1", "{1/2}">> /\ qOut = <<Rat(3, 2)>>

(* C10: a qualifier in front of the argument does not change the result: the
   symbols '~' and '{approx}' put directly in front, and the words about,
   approx., approximately, around, roughly, in lower or in upper case (and
   'About'), put in front as a word of their own (followed by a space). *)

QualifierWords == {
    <<"a", "b", "o", "u", "t">>,
    <<"a", "p", "p", "r", "o", "x", ".">>,
    <<"a", "p", "p", "r", "o", "x", "i", "m", "a", "t", "e", "l", "y">>,
    <<"a", "r", "o", "u", "n", "d">>,
    <<"r", "o", "u", "g", "h", "l", "y">> }


QualifierPrefixes ==
    {<<"~">>, <<"{approx}">>}
        \cup {w \o <<" ">> : w \in QualifierWords}
        \cup {UpperCased(w) \o <<" ">> : w \in QualifierWords}
        \cup {Capitalised(<<"a", "b", "o", "u", "t">>) \o <<" ">>}

C10_QualifierIgnored ==
    (Called /\ qIn # NULL) =>
        \A q \in QualifierPrefixes :
            /\ parseQuantityToNumber(q \o qIn) = qOut[1]
            /\ HasAt(qIn, 1, q) => parseQuantityToNumber(From(qIn, Len(q) + 1)) = qOut[1]

\* 'about 1/2' parsed to 0.5
C10_Witness ==
    Called /\ qIn = <<"a", "b", "o", "u", "t", " ", "1", "/", "2">> /\ qOut = <<Rat(1, 2)>>

-----------------------------------------------------------------------------
(* C23: a cleaned token that is neither a fraction int/int with a denominator other
   than 0 nor a well-formed decimal number ('1/0', '1/2/3', '1.2.3', '/', '.')
   contributes 0 to the parsed sum. *)

\* a decimal number: digits with at most one '.', at least one digit ('5', '1.5',
\* '5.' and '.5')
IsDecimalNumber(t) ==
    /\ \E i \in 1..Len(t) : IsDigit(t[i])
    /\ \A i \in 1..Len(t) : IsDigit(t[i]) \/ t[i] = "."
    /\ Cardinality({i \in 1..Len(t) : t[i] = "."}) <= 1

\* what a token is to contribute: its value when it is well formed, 0 otherwise
Contribution(t) ==
    IF IsFractionNumeral(t) THEN NumeralValue(t)
    ELSE IF IsDecimalNumber(t)
    THEN LET ds == SelectSeq(t, IsDigit)
             dot == {i \in 1..Len(t) : t[i] = "."}
             after == IF dot = {} THEN 0 ELSE Len(t) - (CHOOSE i \in dot : TRUE)
         IN Rat(DigitsToNat(ds), Pow10(after))
    ELSE Zero

RECURSIVE SumOfContributions(_)
SumOfContributions(ws) ==
    IF ws = <<>> THEN Zero ELSE RAdd(Contribution(Head(ws)), SumOfContributions(Tail(ws)))

\* a text of digits, '.', '/' and white space: its words are its cleaned tokens
OnlyTokenCharacters(s) ==
    s # NULL /\ \A i \in 1..Len(s) : IsDigit(s[i]) \/ s[i] \in {".", "/"} \/ IsSpace(s[i])

\* C23 as stated: the result is the sum of the contributions of the tokens, 0 for a
\* token that is not well formed
C23_MalformedTokenIsZero ==
    (Called /\ OnlyTokenCharacters(qIn)) => qOut[1] = SumOfContributions(SplitWords(qIn))

\* C23 for the tokens that Number.parseFloat finds no number at the start of
C23_NoLeadingNumber ==
    (Called /\ OnlyTokenCharacters(qIn)
        /\ \A i \in DOMAIN SplitWords(qIn) :
              LET t == SplitWords(qIn)[i]
              IN IsFractionNumeral(t) \/ IsDecimalNumber(t) \/ parseFloat(t) = NaN)
      => qOut[1] = SumOfContributions(SplitWords(qIn))

-----------------------------------------------------------------------------
(* C21: aggregation is deterministic and stateless across runs: a second call of
   generateGroceryList on the same recipes and selection returns the same result,
   it sees no totals or sources left by the first, and the recipes and their
   ingredient lines are not modified. *)

\* the totals of a run are those of the lines this run has visited: every bucket
\* has its sources among the titles of these lines, and a run starts with none
OnlyThisRun ==
    /\ AllSources(aggByAisle) \subseteq {processed[i].title : i \in DOMAIN processed}
    /\ processed = <<>> => aggByAisle = <<>>
    /\ pc = "collect" => combined = <<>>

SameResults ==
    /\ \A i, j \in DOMAIN runs : runs[i] = runs[j]
    /\ pc = "done" => \A i \in DOMAIN runs : runs[i] = combined

-----------------------------------------------------------------------------
(* C27: every aisle of the result of generateGroceryList holds at least one row; an
   aisle whose buckets all have a total of 0 is not in the result. *)

\* C27: no aisle of the result is without rows
C27_NoEmptyAisle ==
    pc = "done" => \A a \in DOMAIN combined : combined[a].val # <<>>

-----------------------------------------------------------------------------
(* C28: for every name, normalizeIngredientName returns a text with no leading or
   trailing space and no two consecutive spaces; names that differ only by letter
   case, hyphen versus space, or extra white space ('flour', 'Flour-', '-flour')
   share one bucket, and a name of hyphens and white space only normalizes to the
   empty text and is skipped. *)

\* the words of a name: the longest runs without hyphen and white space, in lower case
NameWords(name) == SplitWords(ReplaceChar(ToLowerCase(OrEmpty(name)), "-", <<" ">>))

RECURSIVE JoinWords(_)
JoinWords(ws) ==
    IF ws = <<>> THEN <<>>
    ELSE IF Len(ws) = 1 THEN ws[1]
    ELSE ws[1] \o <<" ">> \o JoinWords(Tail(ws))

\* no space at either end, no two spaces in a row
Tidy(s) ==
    /\ s # <<>> => ~IsSpace(s[1]) /\ ~IsSpace(s[Len(s)])
    /\ \A i \in 1..(Len(s) - 1) : ~(s[i] = " " /\ s[i + 1] = " ")

NameCalled == nOut # <<>>

\* C28: the result is tidy, it is the same for all names with the same words, and it
\* is empty for a name without words
C28_NameKey ==
    NameCalled =>
        /\ Tidy(nOut[1])
        /\ nOut[1] = JoinWords(NameWords(nIn))
        /\ NameWords(nIn) = <<>> => nOut[1] = <<>>

\* C28 for the names that neither start nor end with a hyphen
C28_NoHyphenAtEnds ==
    (NameCalled /\ nIn # NULL /\ Trim(nIn) # <<>>
        /\ Trim(nIn)[1] # "-" /\ Trim(nIn)[Len(Trim(nIn))] # "-")
      => /\ Tidy(nOut[1])
         /\ nOut[1] = JoinWords(NameWords(nIn))

-----------------------------------------------------------------------------
(* C30: within one aisle, distinct buckets (normalized name, family, unknown unit
   label) always get distinct row keys in the combined map, so no row overwrites
   another and the number of rows equals the number of emitted buckets, also when a
   name or unit label contains '|' or the words 'count', 'unknown' or 'unitless'. *)

\* the number of rows the Agg of one ingredient emits
EmittedOfAgg(agg) ==
    (IF agg.countTotal # Zero THEN 1 ELSE 0)
        + (IF ATruthy(agg.volumeMlTotal, TspMl) THEN 1 ELSE 0)
        + (IF ATruthy(agg.weightGTotal, OzG) THEN 1 ELSE 0)
        + Len(agg.unknownTotals)

RECURSIVE EmittedOfNames(_)
EmittedOfNames(byName) ==
    IF byName = <<>> THEN 0
    ELSE EmittedOfAgg(Head(byName).val) + EmittedOfNames(Tail(byName))

\* C30: every aisle has as many rows as its buckets emit
C30_DistinctRowKeys ==
    pc = "done" =>
        \A a \in DOMAIN aggByAisle :
            Len(MapGet(combined, aggByAisle[a].key)) = EmittedOfNames(aggByAisle[a].val)

\* C30 for names without the separator '|'
C30_NamesWithoutSeparator ==
    (pc = "done"
        /\ \A i \in DOMAIN processed :
              \A k \in DOMAIN processed[i].ing.name : processed[i].ing.name[k] # "|")
      => \A a \in DOMAIN aggByAisle :
            Len(MapGet(combined, aggByAisle[a].key)) = EmittedOfNames(aggByAisle[a].val)

-----------------------------------------------------------------------------
(* C29: after any sequence of toggleSelect, successful delete and recipe refetch
   (search change), selectedRecipes contains no duplicate id and every id in it
   belongs to a recipe in the current recipes list, so the count 'N recipes
   selected' equals the number of recipes that feed the grocery list; the id of a
   successfully deleted recipe is in neither recipes nor selectedRecipes. *)

SelectedIds == {page.selectedRecipes[i] : i \in DOMAIN page.selectedRecipes}

\* recipes.filter(r => selectedRecipes.includes(r.id)).length
FeedTheList == Cardinality(page.recipes \cap SelectedIds)

NoDuplicateSelected == Cardinality(SelectedIds) = Len(page.selectedRecipes)

\* C29: the selection has no duplicates and lies within the recipes shown, the count
\* shown is the number of recipes that feed the list, and deleted recipes are gone
C29_SelectionWithinRecipes ==
    /\ NoDuplicateSelected
    /\ SelectedIds \subseteq page.recipes
    /\ Len(page.selectedRecipes) = FeedTheList
    /\ page.deleted \cap (page.recipes \cup SelectedIds) = {}

\* the part of C29 that holds: no id is selected twice
C29_NoDuplicates == NoDuplicateSelected

\* ---------------------------------------------------------------------
\* POST /transcribe: authenticateToken, upload.any(), then the handler.
\* A request carries `count` files; file `bigAt` (0: none) is larger than
\* the fileSize limit.  upload.any() reads the files in order and hands a
\* MulterError to next(err) at the first limit it meets; the application
\* registers no error-handling middleware, so the error reaches the
\* default handler of the framework.
\* ---------------------------------------------------------------------
MaxFiles == 11

FilesLimit == 10

FileSizeLimit == 30 * 1024 * 1024

TooLarge == "Upload too large. Please upload fewer/smaller images."

NoImages == "No images uploaded"

FailedToTranscribe == "Failed to transcribe recipe"

UnsupportedFormat == "Unsupported image format"

UploadRequests ==
    { [count |-> c, bigAt |-> b, token |-> t] :
         c \in 0..MaxFiles, b \in 0..MaxFiles, t \in BOOLEAN }

SizeOfFile(req, i) == IF i = req.bigAt THEN FileSizeLimit + 1 ELSE FileSizeLimit - 1

ExceedsLimits(req) ==
    \/ req.count > FilesLimit
    \/ \E i \in 1..req.count : SizeOfFile(req, i) > FileSizeLimit

Json(status, error) == [status |-> status, json |-> TRUE, error |-> error]

\* the default error handler: status 500 and an HTML page, no JSON body
DefaultErrorResponse == [status |-> 500, json |-> FALSE, error |-> ""]

\* the catch block of the handler, by the name of the error it caught
CatchResponse(name) ==
    IF name = "MulterError" THEN Json(413, TooLarge)
    ELSE IF name = "UnsupportedImageFormatError" THEN Json(400, UnsupportedFormat)
    ELSE Json(500, FailedToTranscribe)

\* what the try block can throw: normalizeImageForGemini and the model call
ThrownInHandler == {"UnsupportedImageFormatError", "Error"}

InitUpload ==
    /\ \E req \in UploadRequests :
          /\ req.bigAt <= req.count
          /\ up = [stage |-> "auth", req |-> req, received |-> 0,
                   err |-> "", res |-> <<>>]
    /\ ParseIdle /\ UnitIdle /\ FormatIdle /\ RunIdle /\ NameIdle
    /\ SaveIdle /\ PageIdle
    /\ AggInit

uploadFrame == <<parseVars, unitVars, formatVars, aggVars, runVars, nameVars,
                 saveVars, pageVars>>

AuthenticateToken ==
    /\ up.stage = "auth"
    /\ up' = IF up.req.token
             THEN [up EXCEPT !.stage = "multer"]
             ELSE [up EXCEPT !.stage = "done", !.res = <<Json(401, "")>>]
    /\ UNCHANGED uploadFrame

\* upload.any() takes the next file of the body
ReceiveFile ==
    /\ up.stage = "multer"
    /\ up.received < up.req.count
    /\ LET i == up.received + 1 IN
       up' = IF i > FilesLimit
             THEN [up EXCEPT !.stage = "next(err)", !.err = "MulterError"]
             ELSE IF SizeOfFile(up.req, i) > FileSizeLimit
             THEN [up EXCEPT !.stage = "next(err)", !.err = "MulterError"]
             ELSE [up EXCEPT !.received = i]
    /\ UNCHANGED uploadFrame

\* the body is read to its end: next() runs the handler
FilesDone ==
    /\ up.stage = "multer"
    /\ up.received = up.req.count
    /\ up' = [up EXCEPT !.stage = "handler"]
    /\ UNCHANGED uploadFrame

\* next(err): the handler (req, res) is skipped
DefaultErrorHandler ==
    /\ up.stage = "next(err)"
    /\ up' = [up EXCEPT !.stage = "done", !.res = <<DefaultErrorResponse>>]
    /\ UNCHANGED uploadFrame

Transcribe ==
    /\ up.stage = "handler"
    /\ \/ /\ up.received = 0
          /\ up' = [up EXCEPT !.stage = "done", !.res = <<Json(400, NoImages)>>]
       \/ /\ up.received > 0
          /\ up' = [up EXCEPT !.stage = "done", !.res = <<Json(200, "")>>]
       \/ /\ up.received > 0
          /\ \E name \in ThrownInHandler :
                up' = [up EXCEPT !.stage = "done", !.err = name,
                                 !.res = <<CatchResponse(name)>>]
    /\ UNCHANGED uploadFrame

NextUpload ==
    \/ AuthenticateToken \/ ReceiveFile \/ FilesDone
    \/ DefaultErrorHandler \/ Transcribe

SpecUpload == InitUpload /\ [][NextUpload]_vars

\* C25: an authenticated upload of more than 10 files, or with a file of
\* more than 30MB, is answered with status 413 and the error
\* 'Upload too large. Please upload fewer/smaller images.'
C25_TooLargeIs413 ==
    (up.stage = "done" /\ up.req.token /\ ExceedsLimits(up.req))
        => up.res[1] = Json(413, TooLarge)

\* what the code does instead: such an upload never reaches the handler
C25_TooLargeSkipsHandler ==
    (up.stage = "done" /\ up.req.token /\ ExceedsLimits(up.req))
        => up.res[1] = DefaultErrorResponse

\* no response of this route carries status 413
C25_Never413 == up.stage = "done" => up.res[1].status # 413

\* ---------------------------------------------------------------------
\* POST /: BEGIN, INSERT recipe, one INSERT per ingredient, COMMIT; the
\* catch block sends ROLLBACK.  Every statement goes through db.query,
\* which names no connection: each query runs on one of the connections
\* of the db module, the same one or another.  A connection is in
\* autocommit mode until BEGIN; a failed statement aborts its open
\* transaction, and COMMIT of an aborted transaction rolls it back.
\* Between two awaits of one request a query of another request can run.
\* A row is <<r, 0>> (the recipe of request r) or <<r, i>> (ingredient i).
\* ---------------------------------------------------------------------
MaxConns == 2

MaxSaves == 2

MaxIngredients == 1

Conns == 1..MaxConns

RowsOf(r, n) == { <<r, i>> : i \in 0..n }

NoTransaction == [tx |-> FALSE, failed |-> FALSE, pending |-> {}]

InitSave ==
    /\ dbs = [stage |-> "up", stored |-> {}, used |-> {},
              conn |-> [s \in Conns |-> NoTransaction]]
    /\ saves = <<>>
    /\ ParseIdle /\ UnitIdle /\ FormatIdle /\ RunIdle /\ NameIdle
    /\ UploadIdle /\ PageIdle
    /\ AggInit

saveFrame == <<parseVars, unitVars, formatVars, aggVars, runVars, nameVars,
               uploadVars, pageVars>>

\* the recipe row an ingredient row refers to is visible on connection s
Visible(d, s, row) == row \in d.stored \/ row \in d.conn[s].pending

\* BEGIN on connection s (a warning and no change inside a transaction)
DbBegin(d, s) ==
    [d EXCEPT !.used = @ \cup {s},
              !.conn[s].tx = TRUE]

\* INSERT of row on connection s; accepted: no constraint rejects the row
InsertFails(d, s, row, accepted) ==
    \/ d.conn[s].tx /\ d.conn[s].failed
    \/ ~accepted
    \/ row[2] > 0 /\ ~Visible(d, s, <<row[1], 0>>)

DbInsert(d, s, row, accepted) ==
    IF InsertFails(d, s, row, accepted)
    THEN [d EXCEPT !.used = @ \cup {s},
                   !.conn[s].failed = d.conn[s].tx]
    ELSE IF d.conn[s].tx
    THEN [d EXCEPT !.used = @ \cup {s},
                   !.conn[s].pending = @ \cup {row}]
    ELSE [d EXCEPT !.used = @ \cup {s},
                   !.stored = @ \cup {row}]

DbCommit(d, s) ==
    [d EXCEPT !.used = @ \cup {s},
              !.stored = IF d.conn[s].failed THEN @ ELSE @ \cup d.conn[s].pending,
              !.conn[s] = NoTransaction]

DbRollback(d, s) ==
    [d EXCEPT !.used = @ \cup {s},
              !.conn[s] = NoTransaction]

\* a request arrives with n ingredients
PostRecipe ==
    /\ dbs.stage = "up"
    /\ Len(saves) < MaxSaves
    /\ \E n \in 0..MaxIngredients :
          saves' = Append(saves, [pc |-> "BEGIN", n |-> n, next |-> 1, res |-> <<>>])
    /\ UNCHANGED <<dbs, saveFrame>>

QueryBegin ==
    /\ \E r \in DOMAIN saves, s \in Conns :
          /\ saves[r].pc = "BEGIN"
          /\ dbs' = DbBegin(dbs, s)
          /\ saves' = [saves EXCEPT ![r].pc = "recipe"]
    /\ UNCHANGED saveFrame

QueryInsertRecipe ==
    /\ \E r \in DOMAIN saves, s \in Conns, accepted \in BOOLEAN :
          /\ saves[r].pc = "recipe"
          /\ dbs' = DbInsert(dbs, s, <<r, 0>>, accepted)
          /\ saves' = [saves EXCEPT ![r].pc =
                         IF InsertFails(dbs, s, <<r, 0>>, accepted) THEN "ROLLBACK"
                         ELSE IF saves[r].n = 0 THEN "COMMIT" ELSE "ingredient"]
    /\ UNCHANGED saveFrame

QueryInsertIngredient ==
    /\ \E r \in DOMAIN saves, s \in Conns, accepted \in BOOLEAN :
          /\ saves[r].pc = "ingredient"
          /\ LET row == <<r, saves[r].next>> IN
             /\ dbs' = DbInsert(dbs, s, row, accepted)
             /\ saves' = [saves EXCEPT
                            ![r].pc = IF InsertFails(dbs, s, row, accepted) THEN "ROLLBACK"
                                      ELSE IF saves[r].next = saves[r].n THEN "COMMIT"
                                      ELSE "ingredient",
                            ![r].next = IF InsertFails(dbs, s, row, accepted) THEN @ ELSE @ + 1]
    /\ UNCHANGED saveFrame

QueryCommit ==
    /\ \E r \in DOMAIN saves, s \in Conns :
          /\ saves[r].pc = "COMMIT"
          /\ dbs' = DbCommit(dbs, s)
          /\ saves' = [saves EXCEPT ![r].pc = "done", ![r].res = <<201>>]
    /\ UNCHANGED saveFrame

QueryRollback ==
    /\ \E r \in DOMAIN saves, s \in Conns :
          /\ saves[r].pc = "ROLLBACK"
          /\ dbs' = DbRollback(dbs, s)
          /\ saves' = [saves EXCEPT ![r].pc = "done", ![r].res = <<500>>]
    /\ UNCHANGED saveFrame

NextSave ==
    \/ PostRecipe \/ QueryBegin \/ QueryInsertRecipe \/ QueryInsertIngredient
    \/ QueryCommit \/ QueryRollback

SpecSave == InitSave /\ [][NextSave]_vars

Finished(r) == saves[r].pc = "done"

AllStored(r) == RowsOf(r, saves[r].n) \subseteq dbs.stored

NoneStored(r) == \A row \in dbs.stored : row[1] # r

AllOrNothing(r) ==
    \/ saves[r].res = <<201>> /\ AllStored(r)
    \/ saves[r].res = <<500>> /\ NoneStored(r)

\* C24: once a save request has finished, either its recipe row and all
\* its ingredient rows are stored and the answer is 201, or none of them
\* is stored and the answer is 500
C24_AllOrNothing ==
    \A r \in DOMAIN saves : Finished(r) => AllOrNothing(r)

\* C24 when the db module keeps one connection for all queries
C24_OneConnection ==
    (dbs.stage = "up" /\ dbs.used \subseteq {1})
        => \A r \in DOMAIN saves : Finished(r) => AllOrNothing(r)

\* what holds: one connection and one request at a time
C24_OneConnectionOneRequest ==
    (dbs.stage = "up" /\ dbs.used \subseteq {1} /\ Len(saves) <= 1)
        => \A r \in DOMAIN saves : Finished(r) => AllOrNothing(r)

\* the base unit of a measured family as a number of itself
BaseOf(family) == IF family = "volume" THEN TspMl ELSE OzG

\* the lines of the bucket of a row
LinesOfRow(L, rf) == LinesOf(L, rf.familyBucket[1], rf.familyBucket[2], rf.family)

\* 100 * total, the amount the hundredths of a row are compared with
HundredTimes(total) == AScale(Int2Rat(100), total)

\* h hundredths of the display unit, as an amount of the base unit
HundredthsOf(h, rf) == AScale(h, getUnitInfo(rf.row.unit).toBaseFactor)

\* the quantity q of the row is total / factor rounded to 2 decimals: 100 * q is
\* a whole number and q is within half a hundredth of total / factor
RoundedQuotient(L, rf) ==
    LET h == RMul(Int2Rat(100), rf.row.quantity)
        total == HundredTimes(SumBase(L, LinesOfRow(L, rf)))
        U == BaseOf(rf.family)
    IN /\ h.d = 1
       /\ AGeq(total, HundredthsOf(RSub(h, Rat(1, 2)), rf), U)
       /\ AGeq(HundredthsOf(RAdd(h, Rat(1, 2)), rf), total, U)

\* total / factor is h hundredths exactly
ExactHundredths(L, rf, h) ==
    LET total == HundredTimes(SumBase(L, LinesOfRow(L, rf)))
        U == BaseOf(rf.family)
    IN AGeq(total, HundredthsOf(h, rf), U) /\ AGeq(HundredthsOf(h, rf), total, U)

Measured(R) == {i \in DOMAIN R : R[i].family \in {"volume", "weight"}}

\* C22: the quantity of every Volume and Weight row is the sum over the lines of
\* its bucket of quantity * factorToBase, each line once whatever alias it used,
\* divided by the factor of the row's unit and rounded to 2 decimals; a quotient
\* that is a whole number of hundredths is shown as it is, not as a neighbour.
C22_Conservation ==
    pc = "done" =>
        LET L == Lines
            R == Rows
        IN \A i \in Measured(R) :
              /\ RoundedQuotient(L, R[i])
              /\ \A d \in {-1, 1} :
                    ~ExactHundredths(L, R[i],
                                     RAdd(RMul(Int2Rat(100), R[i].row.quantity), Int2Rat(d)))

\* a Volume row of lines written with different units whose quotient is rounded,
\* next to a Weight row whose quotient is a whole number of hundredths
C22_Witness ==
    /\ pc = "done"
    /\ LET L == Lines
           R == Rows
       IN /\ \E i \in Measured(R) :
                /\ R[i].family = "volume"
                /\ Cardinality(CanonicalUnits(L, LinesOfRow(L, R[i]))) > 1
                /\ ~ExactHundredths(L, R[i], RMul(Int2Rat(100), R[i].row.quantity))
          /\ \E i \in Measured(R) :
                /\ R[i].family = "weight"
                /\ ExactHundredths(L, R[i], RMul(Int2Rat(100), R[i].row.quantity))

\* the aggregate of a list of lines, and the grocery list made of it
RECURSIVE CollectAll(_, _)
CollectAll(byAisle, lines) ==
    IF lines = <<>> THEN byAisle
    ELSE CollectAll(CollectLine(byAisle, Head(lines).title, Head(lines).ing), Tail(lines))

GroceryListOf(lines) == AisleRows(NewCombined, CollectAll(NewAggByAisle, lines))

\* the lists of n lines in another order
Orders(n) == {p \in [1..n -> 1..n] : \A i, j \in 1..n : p[i] = p[j] => i = j}

InOrder(lines, p) == [i \in 1..Len(lines) |-> lines[p[i]]]

\* the rows of a grocery list, out of their order, with the name read by Name
RowSet(comb, Name(_)) ==
    UNION { { <<comb[a].key, Name(comb[a].val[k].val.name), comb[a].val[k].val.quantity,
                comb[a].val[k].val.unit, comb[a].val[k].val.sources>> :
                  k \in DOMAIN comb[a].val } : a \in DOMAIN comb }

\* name and unit of the rows of a known family, in their order
RECURSIVE KnownRows(_)
KnownRows(rows) ==
    IF rows = <<>> THEN <<>>
    ELSE LET r == Head(rows).val
         IN (IF getUnitInfo(r.unit).kind = "unknown" THEN <<>>
             ELSE << <<r.name, r.unit>> >>) \o KnownRows(Tail(rows))

\* per aisle, the rows of a known family in their order
KnownOrder(comb, Name(_)) ==
    { <<comb[a].key,
        LET known == KnownRows(comb[a].val)
        IN [i \in DOMAIN known |-> <<Name(known[i][1]), known[i][2]>>]>> :
          a \in DOMAIN comb }

AisleSet(comb) == {comb[a].key : a \in DOMAIN comb}

\* two grocery lists differ at most by the order of the aisles and of the rows of
\* unknown units, names being read by Name
SameList(c1, c2, Name(_)) ==
    /\ Len(c1) = Len(c2)
    /\ AisleSet(c1) = AisleSet(c2)
    /\ RowSet(c1, Name) = RowSet(c2, Name)
    /\ KnownOrder(c1, Name) = KnownOrder(c2, Name)

\* the list made of the visited lines is the list shown
ShownIsListOfLines == pc = "done" => combined = GroceryListOf(processed)

====
